---- MODULE Spec2Model ----
(***************************************************************************)
(* Model of the ThirdEye analysis backend: the HTTP handlers that trigger  *)
(* analysis (routers/analysis.py), the per-document orchestrator           *)
(* run_all_agents and the group runner run_group_agents (orchestrator.py), *)
(* over the store rows they read and write (models.py).                    *)
(*                                                                         *)
(* Granularity: one action per store round trip of a background task.  A   *)
(* handler declared "async def" without an await runs to completion on the *)
(* event loop, so a handler is one action; the background tasks run in     *)
(* worker threads, each with its own session, and interleave freely.       *)
(***************************************************************************)
EXTENDS Integers, Sequences, FiniteSets

\* ---------------------------------------------------------------- bounds
\* Largest number of files in the one upload the model performs.
MaxDocs == 2
\* Largest number of analyze requests whose background tasks are queued or
\* running at the same time (one worker thread per such request).
MaxWorkers == 2
\* Largest number of background run_all_agents tasks ever enqueued.
MaxTasks == 3
\* Largest number of records in a transaction list drawn as input.
MaxLen == 3
\* Number of times a drawn list is repeated to make a long statement.
MaxRep == 8

\* ---------------------------------------------------------------- types
DocIds == 1 .. MaxDocs
Slots == 1 .. MaxWorkers

\* models.py AgentType
AgentTypes == {"layout", "extraction", "insights", "tampering", "fraud"}

\* The order in which run_all_agents goes through the agents:
\* the Layout block, the Extraction block, then the loop over `agents`.
PipelineOrder == <<"layout", "extraction", "tampering", "fraud", "insights">>

\* run_group_agents: the list `group_agents`.
GroupOrder == <<"tampering", "fraud", "insights">>

GroupAgentTypes == {GroupOrder[i] : i \in 1 .. Len(GroupOrder)}

\* A row that does not exist is modelled by status "none".
NoRow == [status |-> "none", err |-> "null", risk_level |-> "null", summary |-> "null"]

\* Column default of AgentResult.status / GroupAgentResult.status.
NewRow == [status |-> "pending", err |-> "null", risk_level |-> "null", summary |-> "null"]

VARIABLES
    docStatus,    \* Document.status per document id ("none": no such row)
    agentResult,  \* AgentResult row per (document, agent_type)
    groupResult,  \* GroupAgentResult rows per agent_type, in insertion order
    queue,        \* per request: the background tasks still to run (doc ids)
    pc,           \* per request: position of its running background task
    cur,          \* per request: document_id of the running task
    idx,          \* per request: index of the agent being handled
    grow,         \* per request: group row held by the session (0: new row)
    ntasks,       \* number of background tasks enqueued so far
    reran,        \* history: agent.run was called again for (document, agent)
    rerun,        \* history: the current task started on a Completed document
    concTrig,     \* history: a task for the document was enqueued while
                  \*          another one for it was queued or running
    everAllDone,  \* history: all documents were Completed at the same time
    resp,         \* the response sent by the last step ("none": the step
                  \* was a background task's, which answers no request)
    fnpc,         \* position of the run of the extraction post-processing
    txns,         \* all_transactions: the list the post-processing works on
    prev,         \* history: all_transactions before the last de-duplication
    report,       \* the report of _validate_balance_chain
    rawTxns,      \* RawTransaction rows per document, in insertion order
    stmtMetrics,  \* StatementMetrics row per document (None: no row)
    aggMetrics,   \* AggregatedMetrics row of the upload group (None: no row)
    ex,           \* the locals of a run of ExtractionAgent.run
    flaky,        \* the agent types whose run can raise on an external error
    call,         \* the function called on its own, and how far the call is
    arg,          \* the arguments of that call
    ret           \* what the call has returned or built so far

store == <<docStatus, agentResult, groupResult>>
task == <<queue, pc, cur, idx, grow>>
req == <<ntasks>>
hist == <<reran, rerun, concTrig, everAllDone>>
post == <<fnpc, txns, prev, report>>
agent == <<rawTxns, stmtMetrics, aggMetrics, ex>>
env == <<flaky>>
unit == <<call, arg, ret>>
ext == <<post, agent, env, unit>>
main == <<docStatus, agentResult, groupResult, queue, pc, cur, idx, grow,
          ntasks, reran, rerun, concTrig, everAllDone, resp>>
vars == <<docStatus, agentResult, groupResult, queue, pc, cur, idx, grow,
          ntasks, reran, rerun, concTrig, everAllDone, resp,
          fnpc, txns, prev, report, rawTxns, stmtMetrics, aggMetrics, ex,
          flaky, call, arg, ret>>
notPost == <<main, agent, env, unit>>
notAgent == <<main, post, env, unit>>
notUnit == <<main, post, agent, env>>

\* ---------------------------------------------------------------- helpers
\* The documents of the upload group (db.query(Document).filter(group).all()).
GroupDocs == {d \in DocIds : docStatus[d] # "none"}

\* Variant of AllCompleted with any() in place of all().
AllCompletedAny(st, ds) == \E d \in ds : st[d] = "completed"

\* all(d.status == DocumentStatus.COMPLETED.value for d in docs)
AllCompleted(st, ds) == \A d \in ds : st[d] = "completed"

\* Ascending sequence of the elements of a set of document ids
\* (the order in which the query returns the group's documents).
RECURSIVE SeqOf(_)
SeqOf(S) ==
    IF S = {} THEN <<>>
    ELSE LET m == CHOOSE x \in S : \A y \in S : x <= y
         IN <<m>> \o SeqOf(S \ {m})

\* A request slot is free once its background tasks have all ended.
Free(r) == pc[r] = "idle" /\ queue[r] = <<>>

\* The slot a newly accepted request takes.
FreeSlot == CHOOSE r \in Slots : Free(r) /\ \A s \in Slots : Free(s) => r <= s

\* A task for document d is queued or running.
InFlight(d) ==
    \E r \in Slots :
        \/ pc[r] # "idle" /\ cur[r] = d
        \/ \E i \in 1 .. Len(queue[r]) : queue[r][i] = d

\* Placeholder creation of the analyze handlers: one Pending AgentResult
\* for every agent type that has no row yet.
WithPlaceholders(ar, ds) ==
    [d \in DocIds |->
        [a \in AgentTypes |->
            IF d \in ds /\ ar[d][a].status = "none" THEN NewRow ELSE ar[d][a]]]

\* ---------------------------------------------------------------- transactions
\* An optional value: <<>> is None, <<v>> is the value v.
None == <<>>

\* Amounts and balances are counted in thousandths of the currency unit, so
\* that formatting with two decimals ({x:.2f}, round(x, 2)) rounds.  The
\* inputs drawn below have no third decimal of 5.
\* Fmt2(x): the value with two decimals, in hundredths (round half to even).
Fmt2(x) ==
    LET q == x \div 10
        r == x % 10
    IN IF r > 5 \/ (r = 5 /\ q % 2 = 1) THEN q + 1 ELSE q

\* round(x, 2), in thousandths.
Round2(x) == Fmt2(x) * 10

\* description[:60]: the two long descriptions differ after character 60.
Desc60(desc) == IF desc \in {"long_a", "long_b"} THEN "long" ELSE desc

\* t.get("withdrawal") or t.get("deposit") or 0
Amount(t) ==
    IF t.withdrawal # None /\ t.withdrawal[1] # 0 THEN t.withdrawal[1]
    ELSE IF t.deposit # None /\ t.deposit[1] # 0 THEN t.deposit[1]
    ELSE 0

\* t.get("balance") or 0
BalanceOrZero(t) == IF t.balance = None THEN 0 ELSE t.balance[1]

\* Pass 1 key: f"{date}|{desc}|{amt:.2f}|{bal:.2f}|{txn_type}"
ExactKey(t) ==
    <<t.date, Desc60(t.description), Fmt2(Amount(t)), Fmt2(BalanceOrZero(t)),
      t.transaction_type>>

\* Pass 2 key: f"{date}|{bal:.2f}|{txn_type}|{amt:.2f}"
FuzzyKey(t) ==
    <<t.date, Fmt2(t.balance[1]), t.transaction_type, Fmt2(Amount(t))>>

\* Pass 2 applies to credit and debit records with a known balance.
FuzzyEligible(t) ==
    t.balance # None /\ t.transaction_type \in {"credit", "debit"}

\* Variant of Pass1Loop that empties seen_exact when it drops a record.
RECURSIVE Pass1LoopReset(_, _, _, _)
Pass1LoopReset(L, i, seen, acc) ==
    IF i > Len(L) THEN acc
    ELSE IF ExactKey(L[i]) \in seen
         THEN Pass1LoopReset(L, i + 1, {}, acc)
         ELSE Pass1LoopReset(L, i + 1, seen \cup {ExactKey(L[i])}, Append(acc, L[i]))

\* Pass 1: the loop over transactions with the set seen_exact.
RECURSIVE Pass1Loop(_, _, _, _)
Pass1Loop(L, i, seen, acc) ==
    IF i > Len(L) THEN acc
    ELSE IF ExactKey(L[i]) \in seen
         THEN Pass1Loop(L, i + 1, seen, acc)
         ELSE Pass1Loop(L, i + 1, seen \cup {ExactKey(L[i])}, Append(acc, L[i]))

\* Pass 2: the loop over pass1 with the set seen_balance.
RECURSIVE Pass2Loop(_, _, _, _)
Pass2Loop(L, i, seen, acc) ==
    IF i > Len(L) THEN acc
    ELSE IF FuzzyEligible(L[i])
         THEN IF FuzzyKey(L[i]) \in seen
              THEN Pass2Loop(L, i + 1, seen, acc)
              ELSE Pass2Loop(L, i + 1, seen \cup {FuzzyKey(L[i])}, Append(acc, L[i]))
         ELSE Pass2Loop(L, i + 1, seen, Append(acc, L[i]))

\* _deduplicate_transactions
DeduplicateTransactions(L) ==
    IF L = <<>> THEN L
    ELSE Pass2Loop(Pass1Loop(L, 1, {}, <<>>), 1, {}, <<>>)

\* tolerance = 0.02, in thousandths.
Tolerance == 20

\* The report lists at most this many breaks (len(all_breaks) < 20).
MaxBreaks == 20

\* abs(x)
Abs(x) == IF x < 0 THEN 0 - x ELSE x

\* round(x / y, 1) in tenths, for x >= 0 and y > 0 (round half to even).
RoundTenths(x, y) ==
    LET q == (10 * x) \div y
        r == (10 * x) % y
    IN IF 2 * r > y \/ (2 * r = y /\ q % 2 = 1) THEN q + 1 ELSE q

\* has_sections = any(t.get("account_section", 0) != 0 for t in transactions)
HasSections(L) == \E i \in 1 .. Len(L) : L[i].account_section # 0

\* The else branch of the partition: a new section starts at an
\* opening_balance record when the current section already has records.
\* acc[i] is the key of the section record i is appended to.
RECURSIVE MarkerSections(_, _, _, _)
MarkerSections(L, i, current_section, acc) ==
    IF i > Len(L) THEN acc
    ELSE LET nonempty == \E j \in 1 .. Len(acc) : acc[j] = current_section
             sec == IF L[i].transaction_type = "opening_balance" /\ nonempty
                    THEN current_section + 1 ELSE current_section
         IN MarkerSections(L, i + 1, sec, Append(acc, sec))

\* The key of sections under which each record is stored.
SectionIds(L) ==
    IF HasSections(L) THEN [i \in 1 .. Len(L) |-> L[i].account_section]
    ELSE MarkerSections(L, 1, 0, <<>>)

\* sec_txns: the credit/debit records with a balance of section sec_id.
RECURSIVE SecTxns(_, _, _, _, _)
SecTxns(L, ids, sec_id, i, acc) ==
    IF i > Len(L) THEN acc
    ELSE IF ids[i] = sec_id /\ L[i].transaction_type \in {"credit", "debit"}
            /\ L[i].balance # None
         THEN SecTxns(L, ids, sec_id, i + 1, Append(acc, L[i]))
         ELSE SecTxns(L, ids, sec_id, i + 1, acc)

\* expected = round(prev_bal -/+ amt, 2)
Expected(before, t) ==
    IF t.transaction_type = "debit" THEN Round2(before.balance[1] - Amount(t))
    ELSE Round2(before.balance[1] + Amount(t))

\* Variant of ChainLoop that lists every break.
RECURSIVE ChainLoopNoCap(_, _, _, _)
ChainLoopNoCap(sec_txns, sec_id, i, acc) ==
    IF i > Len(sec_txns) THEN acc
    ELSE LET expected == Expected(sec_txns[i - 1], sec_txns[i])
             curr_bal == sec_txns[i].balance[1]
         IN IF Abs(expected - curr_bal) <= Tolerance
            THEN ChainLoopNoCap(sec_txns, sec_id, i + 1, [acc EXCEPT !.valid = @ + 1])
            ELSE ChainLoopNoCap(sec_txns, sec_id, i + 1,
                    [acc EXCEPT !.invalid = @ + 1,
                                !.breaks = Append(@, [index |-> i - 1, section |-> sec_id,
                                                      expected_balance |-> expected,
                                                      actual_balance |-> curr_bal])])

\* for i in range(1, len(sec_txns)): record number i (0-based) against its
\* predecessor; acc carries total_valid, total_invalid and all_breaks.
RECURSIVE ChainLoop(_, _, _, _)
ChainLoop(sec_txns, sec_id, i, acc) ==
    IF i > Len(sec_txns) THEN acc
    ELSE LET expected == Expected(sec_txns[i - 1], sec_txns[i])
             curr_bal == sec_txns[i].balance[1]
         IN IF Abs(expected - curr_bal) <= Tolerance
            THEN ChainLoop(sec_txns, sec_id, i + 1, [acc EXCEPT !.valid = @ + 1])
            ELSE ChainLoop(sec_txns, sec_id, i + 1,
                    [acc EXCEPT !.invalid = @ + 1,
                                !.breaks = IF Len(@) < MaxBreaks
                                           THEN Append(@, [index |-> i - 1, section |-> sec_id,
                                                           expected_balance |-> expected,
                                                           actual_balance |-> curr_bal])
                                           ELSE @])

\* for sec_id in sorted(sections.keys()), over the keys not yet handled.
RECURSIVE SectionLoop(_, _, _, _)
SectionLoop(L, ids, keys, acc) ==
    IF keys = {} THEN acc
    ELSE LET sec_id == CHOOSE k \in keys : \A m \in keys : k <= m
             sec_txns == SecTxns(L, ids, sec_id, 1, <<>>)
         IN SectionLoop(L, ids, keys \ {sec_id},
                        IF Len(sec_txns) < 2 THEN acc
                        ELSE ChainLoop(sec_txns, sec_id, 2, acc))

\* The report before any validation.
NoReport ==
    [total_checked |-> 0, valid |-> 0, invalid |-> 0, chain_accuracy_pct |-> 0,
     breaks |-> <<>>, sections |-> 0]

\* _validate_balance_chain; chain_accuracy_pct is in tenths of a percent.
ValidateBalanceChain(L) ==
    LET ids == SectionIds(L)
        keys == {ids[i] : i \in 1 .. Len(L)}
        acc == SectionLoop(L, ids, keys, [valid |-> 0, invalid |-> 0, breaks |-> <<>>])
        total == acc.valid + acc.invalid
    IN [total_checked |-> total,
        valid |-> acc.valid,
        invalid |-> acc.invalid,
        chain_accuracy_pct |-> IF total > 0 THEN RoundTenths(acc.valid * 100, total)
                               ELSE 1000,
        breaks |-> acc.breaks,
        sections |-> Cardinality(keys)]

\* ---------------------------------------------------------------- Init
\* The store and the task queues right after init_db: no rows, no tasks.
MainInit ==
    /\ docStatus = [d \in DocIds |-> "none"]
    /\ agentResult = [d \in DocIds |-> [a \in AgentTypes |-> NoRow]]
    /\ groupResult = [a \in GroupAgentTypes |-> <<>>]
    /\ queue = [r \in Slots |-> <<>>]
    /\ pc = [r \in Slots |-> "idle"]
    /\ cur = [r \in Slots |-> 0]
    /\ idx = [r \in Slots |-> 0]
    /\ grow = [r \in Slots |-> 0]
    /\ ntasks = 0
    /\ reran = [d \in DocIds |-> [a \in AgentTypes |-> FALSE]]
    /\ rerun = [r \in Slots |-> FALSE]
    /\ concTrig = [d \in DocIds |-> FALSE]
    /\ everAllDone = FALSE
    /\ resp = "none"
    /\ flaky = {}

\* No post-processing is under way.
PostIdle ==
    /\ fnpc = "off"
    /\ txns = <<>>
    /\ prev = <<>>
    /\ report = NoReport

\* The locals of ExtractionAgent.run before a run.
IdleEx ==
    [pc |-> "idle", doc |-> 0, is_scanned |-> FALSE, table_result |-> None,
     word_result |-> None, ran |-> {}, src |-> {}, extraction_method |-> "",
     all_transactions |-> <<>>,
     before |-> [raw |-> <<>>, metrics |-> None, agg |-> None]]

\* No extraction data is stored and ExtractionAgent.run is not running.
AgentIdle ==
    /\ rawTxns = [d \in DocIds |-> <<>>]
    /\ stmtMetrics = [d \in DocIds |-> None]
    /\ aggMetrics = None
    /\ ex = IdleEx

\* No function is called on its own.
UnitIdle ==
    /\ call = "none"
    /\ arg = <<>>
    /\ ret = <<>>

Init == MainInit /\ PostIdle /\ AgentIdle /\ UnitIdle

\* History: set once every document of the group is Completed.
NoteAllDone(st) ==
    everAllDone' = (everAllDone \/
                    ({d \in DocIds : st[d] # "none"} # {} /\
                     \A d \in DocIds : st[d] \in {"none", "completed"}))

\* ---------------------------------------------------------------- handlers
\* POST /upload: one upload group with n documents, status Uploaded.
Upload(n) ==
    /\ GroupDocs = {}
    /\ docStatus' = [d \in DocIds |-> IF d <= n THEN "uploaded" ELSE "none"]
    /\ resp' = "ok"
    /\ UNCHANGED ext
    /\ UNCHANGED <<agentResult, groupResult, task, req, hist>>

\* Variant of Conflict that answers 409 after the handler has set the
\* status and created the placeholders.
ConflictAfterWrite(d) ==
    /\ resp' = "409"
    /\ UNCHANGED ext
    /\ agentResult' = [agentResult EXCEPT ![d] =
                          [a \in AgentTypes |-> [@[a] EXCEPT !.status = "pending"]]]
    /\ UNCHANGED <<docStatus, groupResult, task, req, hist>>

\* raise HTTPException(status_code=409, ...): the handler ends before its
\* first write.
Conflict(d) ==
    /\ resp' = "409"
    /\ UNCHANGED ext
    /\ UNCHANGED <<store, task, req, hist>>

\* POST /analyze/{document_id}: 404 without the document, 409 while it is
\* Processing; otherwise status Processing, placeholders, one background task.
AnalyzeDocument(d) ==
    /\ docStatus[d] # "none"
    /\ IF docStatus[d] = "processing"
       THEN Conflict(d)
       ELSE /\ ntasks < MaxTasks
            /\ resp' = "ok"
            /\ UNCHANGED ext
            /\ \E r \in Slots : Free(r)
            /\ docStatus' = [docStatus EXCEPT ![d] = "processing"]
            /\ agentResult' = WithPlaceholders(agentResult, {d})
            /\ queue' = [queue EXCEPT ![FreeSlot] = <<d>>]
            /\ ntasks' = ntasks + 1
            /\ concTrig' = [concTrig EXCEPT ![d] = @ \/ InFlight(d)]
            /\ UNCHANGED <<groupResult, pc, cur, idx, grow,
                           reran, rerun, everAllDone>>

\* POST /analyze/group/{upload_group_id}
AnalyzeGroup ==
    /\ GroupDocs # {}
    /\ ntasks + Cardinality(GroupDocs) <= MaxTasks
    /\ \E r \in Slots : Free(r)
    /\ docStatus' = [d \in DocIds |->
                        IF d \in GroupDocs THEN "processing" ELSE docStatus[d]]
    /\ agentResult' = WithPlaceholders(agentResult, GroupDocs)
    /\ queue' = [queue EXCEPT ![FreeSlot] = SeqOf(GroupDocs)]
    /\ ntasks' = ntasks + Cardinality(GroupDocs)
    /\ concTrig' = [d \in DocIds |->
                       concTrig[d] \/ (d \in GroupDocs /\ InFlight(d))]
    /\ resp' = "ok"
    /\ UNCHANGED ext
    /\ UNCHANGED <<groupResult, pc, cur, idx, grow,
                   reran, rerun, everAllDone>>

\* get_group_status: the value of overall_status.
OverallStatus ==
    LET docs == GroupDocs
        total == Cardinality(docs)
        completed == Cardinality({d \in docs : docStatus[d] = "completed"})
        failed == Cardinality({d \in docs : docStatus[d] = "failed"})
        processing == Cardinality({d \in docs : docStatus[d] = "processing"})
        group_agent_results ==
            UNION {{<<a, i>> : i \in 1 .. Len(groupResult[a])} : a \in GroupAgentTypes}
    IN IF \A d \in docs : docStatus[d] = "completed"
       THEN IF total > 1 /\ group_agent_results # {}
            THEN IF \A x \in group_agent_results :
                        groupResult[x[1]][x[2]].status = "completed"
                 THEN "completed"
                 ELSE IF \E x \in group_agent_results :
                            groupResult[x[1]][x[2]].status = "failed"
                 THEN "completed"
                 ELSE "group_processing"
            ELSE "completed"
       ELSE IF failed = total THEN "failed"
       ELSE IF processing > 0 \/ completed < total THEN "processing"
       ELSE "uploaded"

\* GET /status/group/{upload_group_id}: 404 without documents.
GetGroupStatus ==
    /\ GroupDocs # {}
    /\ resp' = OverallStatus
    /\ UNCHANGED ext
    /\ UNCHANGED <<store, task, req, hist>>

\* ---------------------------------------------------------------- agents
\* Parameters accepted by each agent's run(self, ...).
RunParams(a) == {"document_id", "db"}

\* Arguments with which run_all_agents calls agent.run.
CallArgs(a) ==
    IF a = "extraction" THEN {"document_id", "db", "layout_context"}
    ELSE {"document_id", "db"}

\* Agent classes that define run_group.
HasRunGroup(a) == a \in {"insights", "tampering"}

\* Outcome of the call agent.run(...) made by run_all_agents:
\*   "typeerror" the call does not match the signature (raised at the call),
\*   "raise"     a PDF, model or store operation inside the agent raised,
\*   "ok"        the agent returned {results, summary, risk_level}.
RunOutcomes(a) ==
    IF CallArgs(a) \subseteq RunParams(a)
    THEN {"ok"} \cup (IF a \in flaky THEN {"raise"} ELSE {})
    ELSE {"typeerror"}

\* Outcome of the call agent.run_group(upload_group_id, db).
RunGroupOutcomes(a) ==
    IF HasRunGroup(a)
    THEN {"ok"} \cup (IF a \in flaky THEN {"raise"} ELSE {})
    ELSE {"attrerror"}

\* Variant of AfterRun whose except branch does not record str(e).
AfterRunNoMessage(row, out) ==
    IF out = "ok" THEN [row EXCEPT !.status = "completed"]
    ELSE [row EXCEPT !.status = "failed"]

\* The row an orchestrator writes after the call: on success status
\* Completed (error_message is not assigned), in the except branch status
\* Failed and error_message = str(e).
AfterRun(row, out) ==
    IF out = "ok" THEN [row EXCEPT !.status = "completed"]
    ELSE [row EXCEPT !.status = "failed", !.err = "msg"]

\* What an agent's run returns as summary and risk_level: Fraud and Insights
\* return early when the document has no RawTransaction; every other
\* result is computed from the document.
RunResult(a, raw) ==
    IF a = "fraud" /\ raw = <<>>
    THEN [risk_level |-> "low",
          summary |-> "No transactions available for fraud analysis."]
    ELSE IF a = "insights" /\ raw = <<>>
    THEN [risk_level |-> "low",
          summary |-> "Insights failed: No transactions found - run extraction first"]
    ELSE [risk_level |-> "computed", summary |-> "computed"]

\* On success the orchestrator stores summary and risk_level of the output.
WithOutput(row, out, output) ==
    IF out = "ok"
    THEN [row EXCEPT !.risk_level = output.risk_level, !.summary = output.summary]
    ELSE row

\* ---------------------------------------------------------------- run_all_agents
\* A worker thread takes the next background task of a request:
\* run_all_agents loads the Document.
StartTask(r) ==
    /\ pc[r] = "idle"
    /\ queue[r] # <<>>
    /\ cur' = [cur EXCEPT ![r] = Head(queue[r])]
    /\ queue' = [queue EXCEPT ![r] = Tail(queue[r])]
    /\ idx' = [idx EXCEPT ![r] = 1]
    /\ pc' = [pc EXCEPT ![r] = "query"]
    /\ rerun' = [rerun EXCEPT ![r] = (docStatus[Head(queue[r])] = "completed")]
    /\ resp' = "none"
    /\ UNCHANGED ext
    /\ UNCHANGED <<store, grow, req, reran, concTrig, everAllDone>>

\* Position after agent number i has been handled.
AfterAgent(i) == IF i < Len(PipelineOrder) THEN "query" ELSE "mark"

\* Query the AgentResult of the next agent (created if missing) and apply the
\* gate: a Completed result is skipped, anything else is to be run.
QueryAgent(r) ==
    /\ pc[r] = "query"
    /\ LET a == PipelineOrder[idx[r]]
           row == agentResult[cur[r]][a]
       IN IF row.status = "completed"
          THEN /\ pc' = [pc EXCEPT ![r] = AfterAgent(idx[r])]
               /\ idx' = [idx EXCEPT ![r] = IF @ < Len(PipelineOrder) THEN @ + 1 ELSE @]
          ELSE /\ pc' = [pc EXCEPT ![r] = "enter"]
               /\ UNCHANGED idx
    /\ resp' = "none"
    /\ UNCHANGED ext
    /\ UNCHANGED <<store, queue, cur, grow, req, reran, rerun,
                   concTrig, everAllDone>>

\* status = Running, started_at = now, commit.
EnterAgent(r) ==
    /\ pc[r] = "enter"
    /\ LET a == PipelineOrder[idx[r]]
           row == agentResult[cur[r]][a]
       IN /\ agentResult' = [agentResult EXCEPT ![cur[r]][a] =
                                [row EXCEPT !.status = "running"]]
          /\ reran' = [reran EXCEPT ![cur[r]][a] =
                          @ \/ row.status \in {"running", "completed", "failed"}]
    /\ pc' = [pc EXCEPT ![r] = "run"]
    /\ resp' = "none"
    /\ UNCHANGED ext
    /\ UNCHANGED <<docStatus, groupResult, queue, cur, idx, grow, req,
                   rerun, concTrig, everAllDone>>

\* agent.run(...) and the commit of its outcome.
RunAgent(r) ==
    /\ pc[r] = "run"
    /\ LET a == PipelineOrder[idx[r]]
           row == agentResult[cur[r]][a]
       IN \E out \in RunOutcomes(a) :
            agentResult' = [agentResult EXCEPT ![cur[r]][a] =
                               WithOutput(AfterRun(row, out), out,
                                          RunResult(a, rawTxns[cur[r]]))]
    /\ pc' = [pc EXCEPT ![r] = AfterAgent(idx[r])]
    /\ idx' = [idx EXCEPT ![r] = IF @ < Len(PipelineOrder) THEN @ + 1 ELSE @]
    /\ resp' = "none"
    /\ UNCHANGED ext
    /\ UNCHANGED <<docStatus, groupResult, queue, cur, grow, req, hist>>

\* doc.status = Completed, commit.
MarkCompleted(r) ==
    /\ pc[r] = "mark"
    /\ docStatus' = [docStatus EXCEPT ![cur[r]] = "completed"]
    /\ pc' = [pc EXCEPT ![r] = "gcheck"]
    /\ NoteAllDone(docStatus')
    /\ resp' = "none"
    /\ UNCHANGED ext
    /\ UNCHANGED <<agentResult, groupResult, queue, cur, idx, grow, req,
                   reran, rerun, concTrig>>

\* The background task returns; the session is closed.
EndTask(r) ==
    /\ pc' = [pc EXCEPT ![r] = "idle"]
    /\ cur' = [cur EXCEPT ![r] = 0]
    /\ idx' = [idx EXCEPT ![r] = 0]
    /\ grow' = [grow EXCEPT ![r] = 0]
    /\ rerun' = [rerun EXCEPT ![r] = FALSE]

\* Variant of GroupCheck whose size test is off by one (len > 2).
GroupCheckOffByOne(r) ==
    /\ pc[r] = "gcheck"
    /\ IF AllCompleted(docStatus, GroupDocs) /\ Cardinality(GroupDocs) > 2
       THEN /\ pc' = [pc EXCEPT ![r] = "gdocs"]
            /\ UNCHANGED <<cur, idx, grow, rerun>>
       ELSE EndTask(r)
    /\ resp' = "none"
    /\ UNCHANGED ext
    /\ UNCHANGED <<store, queue, req, reran, concTrig, everAllDone>>

\* Query the group's documents: all Completed and more than one document
\* calls run_group_agents, otherwise the task ends.
GroupCheck(r) ==
    /\ pc[r] = "gcheck"
    /\ IF AllCompleted(docStatus, GroupDocs) /\ Cardinality(GroupDocs) > 1
       THEN /\ pc' = [pc EXCEPT ![r] = "gdocs"]
            /\ UNCHANGED <<cur, idx, grow, rerun>>
       ELSE EndTask(r)
    /\ resp' = "none"
    /\ UNCHANGED ext
    /\ UNCHANGED <<store, queue, req, reran, concTrig, everAllDone>>

\* ---------------------------------------------------------------- run_group_agents
\* New session; query the group's documents; return unless all are
\* Completed and there are at least two.
GroupStart(r) ==
    /\ pc[r] = "gdocs"
    /\ IF AllCompleted(docStatus, GroupDocs) /\ ~(Cardinality(GroupDocs) < 2)
       THEN /\ pc' = [pc EXCEPT ![r] = "gquery"]
            /\ idx' = [idx EXCEPT ![r] = 1]
            /\ UNCHANGED <<cur, grow, rerun>>
       ELSE EndTask(r)
    /\ resp' = "none"
    /\ UNCHANGED ext
    /\ UNCHANGED <<store, queue, req, reran, concTrig, everAllDone>>

\* The loop over group_agents moves on after agent number idx[r].
NextGroupAgent(r) ==
    IF idx[r] < Len(GroupOrder)
    THEN /\ pc' = [pc EXCEPT ![r] = "gquery"]
         /\ idx' = [idx EXCEPT ![r] = @ + 1]
         /\ grow' = [grow EXCEPT ![r] = 0]
         /\ UNCHANGED <<cur, rerun>>
    ELSE EndTask(r)

\* Query the first GroupAgentResult of the agent type; none: a new row is
\* added to the session; Completed: skip.
GroupQuery(r) ==
    /\ pc[r] = "gquery"
    /\ LET a == GroupOrder[idx[r]]
           rows == groupResult[a]
       IN IF rows = <<>>
          THEN /\ grow' = [grow EXCEPT ![r] = 0]
               /\ pc' = [pc EXCEPT ![r] = "genter"]
               /\ UNCHANGED <<cur, idx, rerun>>
          ELSE IF rows[1].status = "completed"
          THEN NextGroupAgent(r)
          ELSE /\ grow' = [grow EXCEPT ![r] = 1]
               /\ pc' = [pc EXCEPT ![r] = "genter"]
               /\ UNCHANGED <<cur, idx, rerun>>
    /\ resp' = "none"
    /\ UNCHANGED ext
    /\ UNCHANGED <<store, queue, req, reran, concTrig, everAllDone>>

\* status = Running, started_at = now, commit (inserting the new row).
GroupEnter(r) ==
    /\ pc[r] = "genter"
    /\ LET a == GroupOrder[idx[r]]
           rows == groupResult[a]
       IN IF grow[r] = 0
          THEN /\ groupResult' = [groupResult EXCEPT ![a] =
                                     Append(rows, [NewRow EXCEPT !.status = "running"])]
               /\ grow' = [grow EXCEPT ![r] = Len(rows) + 1]
          ELSE /\ groupResult' = [groupResult EXCEPT ![a][grow[r]].status = "running"]
               /\ UNCHANGED grow
    /\ pc' = [pc EXCEPT ![r] = "grun"]
    /\ resp' = "none"
    /\ UNCHANGED ext
    /\ UNCHANGED <<docStatus, agentResult, queue, cur, idx, req, hist>>

\* agent.run_group(upload_group_id, db) and the commit of its outcome.
GroupRun(r) ==
    /\ pc[r] = "grun"
    /\ LET a == GroupOrder[idx[r]]
           row == groupResult[a][grow[r]]
       IN \E out \in RunGroupOutcomes(a) :
            groupResult' = [groupResult EXCEPT ![a][grow[r]] = AfterRun(row, out)]
    /\ NextGroupAgent(r)
    /\ resp' = "none"
    /\ UNCHANGED ext
    /\ UNCHANGED <<docStatus, agentResult, queue, req, reran, concTrig, everAllDone>>

\* ---------------------------------------------------------------- post-processing
\* A transaction record as the extraction tiers produce it.
Txn(desc, bal, type, sec) ==
    [date |-> "01 JAN", description |-> desc,
     withdrawal |-> IF type = "debit" THEN <<5000>> ELSE None,
     deposit |-> IF type = "credit" THEN <<5000>> ELSE None,
     balance |-> bal, transaction_type |-> type, account_section |-> sec]

\* Records that collide in the de-duplication keys in every way: equal
\* truncated descriptions, balances equal after formatting, a missing
\* balance against a balance of zero, with and without the fuzzy pass.
DedupTxns ==
    {Txn(desc, bal, "credit", 0) :
        desc \in {"short", "long_a", "long_b"},
        bal \in {None, <<0>>, <<10000>>, <<10004>>}}
    \cup {Txn(desc, <<10000>>, "opening_balance", 0) : desc \in {"short", "long_a"}}

\* Records that chain (10000 + 5000 and 15010 - 5000 are within the
\* tolerance) or break, tagged or untagged, a record without balance and
\* an opening_balance marker.
ChainTxns ==
    {Txn("short", bal, type, sec) :
        bal \in {<<10000>>, <<15010>>}, type \in {"credit", "debit"}, sec \in {0, 1}}
    \cup {Txn("short", None, "credit", 0), Txn("short", <<10000>>, "opening_balance", 0)}

\* The lists of at most n records of S.
Lists(S, n) == UNION {[1 .. k -> S] : k \in 0 .. n}

\* The list L written n times in a row.
RECURSIVE Repeat(_, _)
Repeat(L, n) == IF n = 0 THEN <<>> ELSE L \o Repeat(L, n - 1)

\* The post-processing of ExtractionAgent.run starts on all_transactions.
PostInit ==
    /\ MainInit
    /\ AgentIdle
    /\ UnitIdle
    /\ fnpc = "input"
    /\ txns \in Lists(DedupTxns, MaxLen)
                \cup {Repeat(L, MaxRep) : L \in Lists(ChainTxns, MaxLen)}
    /\ prev = <<>>
    /\ report = NoReport

\* all_transactions = _deduplicate_transactions(all_transactions); applied a
\* second time to its own result.
Deduplicate ==
    /\ fnpc \in {"input", "dedup"}
    /\ txns' = DeduplicateTransactions(txns)
    /\ prev' = IF fnpc = "dedup" THEN txns ELSE <<>>
    /\ fnpc' = IF fnpc = "input" THEN "dedup" ELSE "dedup2"
    /\ UNCHANGED <<report, notPost>>

\* balance_chain = _validate_balance_chain(all_transactions)
ValidateChain ==
    /\ fnpc \in {"input", "dedup"}
    /\ report' = ValidateBalanceChain(txns)
    /\ fnpc' = "chain"
    /\ UNCHANGED <<txns, prev, notPost>>

PostNext ==
    \/ Deduplicate
    \/ ValidateChain

PostSpec == PostInit /\ [][PostNext]_vars

\* ---------------------------------------------------------------- ExtractionAgent.run
\* What _try_extract_tables can return: None, or a dict whose transactions
\* are empty or not.
TableResults == {None, << <<>> >>, << <<Txn("short", <<10000>>, "credit", 0)>> >>}

\* What _try_extract_words can return.
WordResults == {None, << <<>> >>, << <<Txn("short", <<15010>>, "debit", 0)>> >>}

\* What the batches of _extract_transactions can add up to: nothing, or the
\* same record from two batches.
LlmResults ==
    {<<>>, <<Txn("long_a", <<10000>>, "credit", 0), Txn("long_b", <<10000>>, "credit", 0)>>}

\* `result and result["transactions"]`
HasTransactions(res) == res # None /\ res[1] # <<>>

\* The balance record the table path injects from the header table.
HeaderBalance(type) ==
    [Txn("BALANCE", <<10000>>, type, 0) EXCEPT !.date = ""]

\* Table path: opening and closing balance of the header table are added
\* unless the transactions already hold such a record.
WithHeaderBalances(L, header) ==
    LET has(type) == \E i \in 1 .. Len(L) : L[i].transaction_type = type
        opened == IF header /\ ~has("opening_balance")
                  THEN <<HeaderBalance("opening_balance")>> \o L ELSE L
    IN IF header /\ ~has("closing_balance")
       THEN Append(opened, HeaderBalance("closing_balance")) ELSE opened

\* _store_transactions: the rows added (balance records are skipped).
StoredRows(L) ==
    SelectSeq(L, LAMBDA t : t.transaction_type \notin {"opening_balance", "closing_balance"})

\* sum of the truthy amounts of a field over a list
RECURSIVE SumField(_, _)
SumField(L, withdrawals) ==
    IF L = <<>> THEN 0
    ELSE LET v == IF withdrawals THEN Head(L).withdrawal ELSE Head(L).deposit
         IN (IF v = None THEN 0 ELSE v[1]) + SumField(Tail(L), withdrawals)

\* _compute_metrics: the counts and sums of the StatementMetrics row.
ComputeMetrics(L) ==
    LET credits == SelectSeq(L, LAMBDA t : t.transaction_type = "credit")
        debits == SelectSeq(L, LAMBDA t : t.transaction_type = "debit")
    IN [total_no_of_credit_transactions |-> Len(credits),
        total_amount_of_credit_transactions |-> Round2(SumField(credits, FALSE)),
        total_no_of_debit_transactions |-> Len(debits),
        total_amount_of_debit_transactions |-> Round2(SumField(debits, TRUE))]

\* sum of a count over the StatementMetrics rows of a set of documents
RECURSIVE SumCount(_, _, _)
SumCount(sm, ds, credit) ==
    IF ds = {} THEN 0
    ELSE LET d == CHOOSE x \in ds : TRUE
         IN (IF credit THEN sm[d][1].total_no_of_credit_transactions
             ELSE sm[d][1].total_no_of_debit_transactions)
            + SumCount(sm, ds \ {d}, credit)

\* _update_aggregated_metrics: the row that replaces the group's row, from
\* all StatementMetrics of the group; nothing is written without any.
Aggregated(sm, old) ==
    LET all_metrics == {d \in DocIds : sm[d] # None}
    IN IF all_metrics = {} THEN old
       ELSE <<[total_statements |-> Cardinality(all_metrics),
               total_credit_transactions |-> SumCount(sm, all_metrics, TRUE),
               total_debit_transactions |-> SumCount(sm, all_metrics, FALSE)]>>

\* One file has been uploaded; ExtractionAgent.run is called on its document.
ExtractInit ==
    /\ docStatus = [d \in DocIds |-> IF d = 1 THEN "uploaded" ELSE "none"]
    /\ agentResult = [d \in DocIds |-> [a \in AgentTypes |-> NoRow]]
    /\ groupResult = [a \in GroupAgentTypes |-> <<>>]
    /\ queue = [r \in Slots |-> <<>>]
    /\ pc = [r \in Slots |-> "idle"]
    /\ cur = [r \in Slots |-> 0]
    /\ idx = [r \in Slots |-> 0]
    /\ grow = [r \in Slots |-> 0]
    /\ ntasks = 0
    /\ reran = [d \in DocIds |-> [a \in AgentTypes |-> FALSE]]
    /\ rerun = [r \in Slots |-> FALSE]
    /\ concTrig = [d \in DocIds |-> FALSE]
    /\ everAllDone = FALSE
    /\ resp = "ok"
    /\ flaky = {}
    /\ PostIdle
    /\ UnitIdle
    /\ AgentIdle

\* run(document_id, db): the document is loaded.
ExStart(d) ==
    /\ ex.pc \in {"idle", "done", "failed"}
    /\ docStatus[d] # "none"
    /\ ex' = [IdleEx EXCEPT !.pc = "pages", !.doc = d,
                            !.before = [raw |-> rawTxns[d], metrics |-> stmtMetrics[d],
                                        agg |-> aggMetrics]]
    /\ UNCHANGED <<notAgent, rawTxns, stmtMetrics, aggMetrics>>

\* 1. is_scanned_pdf and the text of the pages; no pages raises ValueError.
ExPages ==
    /\ ex.pc = "pages"
    /\ \E scanned \in BOOLEAN, pages \in BOOLEAN :
          ex' = IF pages THEN [ex EXCEPT !.pc = "tables", !.is_scanned = scanned]
                ELSE [ex EXCEPT !.pc = "failed", !.is_scanned = scanned]
    /\ UNCHANGED <<notAgent, rawTxns, stmtMetrics, aggMetrics>>

\* 3. Table-based extraction, skipped for a scanned PDF; its transactions,
\* when there are any, are all_transactions.
ExTables ==
    /\ ex.pc = "tables"
    /\ \E res \in TableResults, header \in BOOLEAN :
          LET table_result == IF ex.is_scanned THEN None ELSE res
              ran == IF ex.is_scanned THEN ex.ran ELSE ex.ran \cup {"A"}
          IN ex' = IF HasTransactions(table_result)
                   THEN [ex EXCEPT !.pc = "dedup", !.table_result = table_result,
                                   !.ran = ran, !.src = @ \cup {"A"},
                                   !.extraction_method = "table",
                                   !.all_transactions =
                                       WithHeaderBalances(table_result[1], header)]
                   ELSE [ex EXCEPT !.pc = "words", !.table_result = table_result,
                                   !.ran = ran]
    /\ UNCHANGED <<notAgent, rawTxns, stmtMetrics, aggMetrics>>

\* Variant of ExWords that does not skip a scanned PDF.
ExWordsScanned ==
    /\ ex.pc = "words"
    /\ \E res \in WordResults :
          ex' = IF HasTransactions(res)
                THEN [ex EXCEPT !.pc = "dedup", !.word_result = res,
                                !.ran = @ \cup {"B"}, !.src = @ \cup {"B"},
                                !.extraction_method = "words",
                                !.all_transactions = res[1]]
                ELSE [ex EXCEPT !.pc = "llm", !.word_result = res,
                                !.ran = @ \cup {"B"}]
    /\ UNCHANGED <<notAgent, rawTxns, stmtMetrics, aggMetrics>>

\* Word-position extraction, skipped for a scanned PDF; its transactions,
\* when there are any, are all_transactions.
ExWords ==
    /\ ex.pc = "words"
    /\ \E res \in WordResults :
          LET word_result == IF ex.is_scanned THEN None ELSE res
              ran == IF ex.is_scanned THEN ex.ran ELSE ex.ran \cup {"B"}
          IN ex' = IF HasTransactions(word_result)
                   THEN [ex EXCEPT !.pc = "dedup", !.word_result = word_result,
                                   !.ran = ran, !.src = @ \cup {"B"},
                                   !.extraction_method = "words",
                                   !.all_transactions = word_result[1]]
                   ELSE [ex EXCEPT !.pc = "llm", !.word_result = word_result,
                                   !.ran = ran]
    /\ UNCHANGED <<notAgent, rawTxns, stmtMetrics, aggMetrics>>

\* LLM path: the batches are parsed by the model (a failed batch adds
\* nothing).
ExLlm ==
    /\ ex.pc = "llm"
    /\ \E res \in LlmResults :
          ex' = [ex EXCEPT !.pc = "dedup", !.ran = @ \cup {"C"}, !.src = @ \cup {"C"},
                           !.extraction_method = IF ex.is_scanned THEN "ocr+llm" ELSE "llm",
                           !.all_transactions = res]
    /\ UNCHANGED <<notAgent, rawTxns, stmtMetrics, aggMetrics>>

\* 5. and 6. De-duplication and balance chain.
ExDedup ==
    /\ ex.pc = "dedup"
    /\ ex' = [ex EXCEPT !.pc = "store_transactions",
                        !.all_transactions = DeduplicateTransactions(@)]
    /\ UNCHANGED <<notAgent, rawTxns, stmtMetrics, aggMetrics>>

\* 7. _store_transactions: delete, add, commit; a store error raises.
ExStoreTransactions ==
    /\ ex.pc = "store_transactions"
    /\ \E raises \in BOOLEAN :
          IF raises
          THEN /\ ex' = [ex EXCEPT !.pc = "failed"]
               /\ UNCHANGED rawTxns
          ELSE /\ ex' = [ex EXCEPT !.pc = "store_metrics"]
               /\ rawTxns' = [rawTxns EXCEPT ![ex.doc] = StoredRows(ex.all_transactions)]
    /\ UNCHANGED <<notAgent, stmtMetrics, aggMetrics>>

\* 8. _compute_metrics and _store_metrics: delete, add, commit; an error in
\* either raises.
ExStoreMetrics ==
    /\ ex.pc = "store_metrics"
    /\ \E raises \in BOOLEAN :
          IF raises
          THEN /\ ex' = [ex EXCEPT !.pc = "failed"]
               /\ UNCHANGED stmtMetrics
          ELSE /\ ex' = [ex EXCEPT !.pc = "aggregate"]
               /\ stmtMetrics' = [stmtMetrics EXCEPT ![ex.doc] =
                                     <<ComputeMetrics(ex.all_transactions)>>]
    /\ UNCHANGED <<notAgent, rawTxns, aggMetrics>>

\* 9. and 10. Accuracy score and _update_aggregated_metrics: delete, add,
\* commit; an error in either raises.  Then the result is returned.
ExAggregate ==
    /\ ex.pc = "aggregate"
    /\ \E raises \in BOOLEAN :
          IF raises
          THEN /\ ex' = [ex EXCEPT !.pc = "failed"]
               /\ UNCHANGED aggMetrics
          ELSE /\ ex' = [ex EXCEPT !.pc = "done"]
               /\ aggMetrics' = Aggregated(stmtMetrics, aggMetrics)
    /\ UNCHANGED <<notAgent, rawTxns, stmtMetrics>>

ExtractNext ==
    \/ \E d \in DocIds : ExStart(d)
    \/ ExPages
    \/ ExTables
    \/ ExWords
    \/ ExLlm
    \/ ExDedup
    \/ ExStoreTransactions
    \/ ExStoreMetrics
    \/ ExAggregate

ExtractSpec == ExtractInit /\ [][ExtractNext]_vars

\* ---------------------------------------------------------------- retries
\* Two files have been uploaded; the run and run_group of Insights can raise
\* on an external error (the model call, the store).
RetryInit ==
    /\ docStatus = [d \in DocIds |-> IF d <= 2 THEN "uploaded" ELSE "none"]
    /\ agentResult = [d \in DocIds |-> [a \in AgentTypes |-> NoRow]]
    /\ groupResult = [a \in GroupAgentTypes |-> <<>>]
    /\ queue = [r \in Slots |-> <<>>]
    /\ pc = [r \in Slots |-> "idle"]
    /\ cur = [r \in Slots |-> 0]
    /\ idx = [r \in Slots |-> 0]
    /\ grow = [r \in Slots |-> 0]
    /\ ntasks = 0
    /\ reran = [d \in DocIds |-> [a \in AgentTypes |-> FALSE]]
    /\ rerun = [r \in Slots |-> FALSE]
    /\ concTrig = [d \in DocIds |-> FALSE]
    /\ everAllDone = FALSE
    /\ resp = "ok"
    /\ flaky = {"insights"}
    /\ PostIdle
    /\ AgentIdle
    /\ UnitIdle

\* The client analyses the group, and a document again, once no task is
\* left (retries are a caller concern).
AnalyzeGroupIdle ==
    /\ \A r \in Slots : Free(r)
    /\ AnalyzeGroup

RetryDocument(d) ==
    /\ \A r \in Slots : Free(r)
    /\ AnalyzeDocument(d)

RetryNext ==
    \/ AnalyzeGroupIdle
    \/ \E d \in DocIds : RetryDocument(d)
    \/ \E r \in Slots : StartTask(r)
    \/ \E r \in Slots : QueryAgent(r)
    \/ \E r \in Slots : EnterAgent(r)
    \/ \E r \in Slots : RunAgent(r)
    \/ \E r \in Slots : MarkCompleted(r)
    \/ \E r \in Slots : GroupCheck(r)
    \/ \E r \in Slots : GroupStart(r)
    \/ \E r \in Slots : GroupQuery(r)
    \/ \E r \in Slots : GroupEnter(r)
    \/ \E r \in Slots : GroupRun(r)

RetrySpec == RetryInit /\ [][RetryNext]_vars

\* ---------------------------------------------------------------- risk roll-up
\* Largest number of check results in a list drawn as input.
MaxChecks == 5

\* The number of checks of the list with the given status.
RECURSIVE CountStatus(_, _)
CountStatus(checks, st) ==
    IF checks = <<>> THEN 0
    ELSE (IF Head(checks) = st THEN 1 ELSE 0) + CountStatus(Tail(checks), st)

\* The ladder with the warning rung one warning too low.
RiskLadderTwoWarnings(fail_count, warn_count) ==
    IF fail_count >= 4 THEN "critical"
    ELSE IF fail_count >= 2 THEN "high"
    ELSE IF fail_count >= 1 \/ warn_count >= 2 THEN "medium"
    ELSE "low"

\* tampering._compute_risk: the if/elif ladder over the two counts.
RiskLadder(fail_count, warn_count) ==
    IF fail_count >= 4 THEN "critical"
    ELSE IF fail_count >= 2 THEN "high"
    ELSE IF fail_count >= 1 \/ warn_count >= 3 THEN "medium"
    ELSE IF warn_count >= 1 THEN "low"
    ELSE "low"

\* tampering._compute_risk(checks): (risk, score); the summary text is left
\* out.
TamperingComputeRisk(checks) ==
    LET fail_count == CountStatus(checks, "fail")
        warn_count == CountStatus(checks, "warning")
    IN  [risk_level |-> RiskLadder(fail_count, warn_count),
         risk_score |-> fail_count * 3 + warn_count * 1]

\* fraud._compute_risk(checks): the same function, written out a second
\* time in fraud.py.
FraudComputeRisk(checks) ==
    LET fail_count == CountStatus(checks, "fail")
        warn_count == CountStatus(checks, "warning")
        score == fail_count * 3 + warn_count * 1
        risk == IF fail_count >= 4 THEN "critical"
                ELSE IF fail_count >= 2 THEN "high"
                ELSE IF fail_count >= 1 \/ warn_count >= 3 THEN "medium"
                ELSE IF warn_count >= 1 THEN "low"
                ELSE "low"
    IN  [risk_level |-> risk, risk_score |-> score]

\* A roll-up is about to be called on a list of check results.
RiskInit ==
    /\ MainInit
    /\ PostIdle
    /\ AgentIdle
    /\ call = "checks"
    /\ arg \in Lists({"pass", "warning", "fail"}, MaxChecks)
    /\ ret = <<>>

\* TamperingAgent.run: risk_level, risk_score, summary = _compute_risk(checks)
TamperingRisk ==
    /\ call = "checks"
    /\ call' = "tampering"
    /\ ret' = TamperingComputeRisk(arg)
    /\ UNCHANGED <<arg, notUnit>>

\* FraudAgent.run: risk_level, risk_score, summary = _compute_risk(checks)
FraudRisk ==
    /\ call = "checks"
    /\ call' = "fraud"
    /\ ret' = FraudComputeRisk(arg)
    /\ UNCHANGED <<arg, notUnit>>

RiskNext ==
    \/ TamperingRisk
    \/ FraudRisk

RiskSpec == RiskInit /\ [][RiskNext]_vars

\* ---------------------------------------------------------------- batching
\* Largest number of pages of a statement drawn as input.
MaxPages == 4
\* Largest batch_size and overlap _batch_pages_with_overlap is called with.
MaxBatch == 3
MaxOverlap == 2

\* A page is modelled by what the function asks of its text: whether
\* _is_skip_page and _has_transactions hold of it, and the number of
\* characters _clean_page_text leaves of it.  Its page_number is its
\* position in the list.
PageKinds ==
    {[skip |-> TRUE, has_transactions |-> TRUE, text |-> 900],
     [skip |-> FALSE, has_transactions |-> FALSE, text |-> 900],
     [skip |-> FALSE, has_transactions |-> TRUE, text |-> 900],
     [skip |-> FALSE, has_transactions |-> TRUE, text |-> 2400]}

\* The filter loop: the transaction-bearing pages, as {page_number, text}.
RECURSIVE TxnPages(_, _)
TxnPages(pages, n) ==
    IF n > Len(pages) THEN <<>>
    ELSE IF pages[n].skip \/ ~pages[n].has_transactions THEN TxnPages(pages, n + 1)
    ELSE <<[page_number |-> n, text |-> pages[n].text]>> \o TxnPages(pages, n + 1)

\* sum(len(p["text"]) for p in txn_pages)
RECURSIVE SumChars(_)
SumChars(txn_pages) ==
    IF txn_pages = <<>> THEN 0 ELSE Head(txn_pages).text + SumChars(Tail(txn_pages))

Min(a, b) == IF a <= b THEN a ELSE b
Max(a, b) == IF a >= b THEN a ELSE b

\* The batch size kept as it was given, whatever the density.
AdaptiveBatchSizeOff(txn_pages, batch_size) == batch_size

\* Adaptive batch sizing: avg_chars = sum / len compared with 1500 and 1000.
AdaptiveBatchSize(txn_pages, batch_size) ==
    IF SumChars(txn_pages) > 1500 * Len(txn_pages) THEN Min(batch_size, 2)
    ELSE IF SumChars(txn_pages) > 1000 * Len(txn_pages) THEN Min(batch_size, 3)
    ELSE batch_size

\* [p["page_number"] for p in batch_items]
PageNums(batch_items) == [j \in 1 .. Len(batch_items) |-> batch_items[j].page_number]

\* The pages of a statement are at hand.
BatchInit ==
    /\ MainInit
    /\ PostIdle
    /\ AgentIdle
    /\ call = "pages"
    /\ arg = <<>>
    /\ ret \in {[pages |-> ps] : ps \in Lists(PageKinds, MaxPages)}

\* _batch_pages_with_overlap(pages, bank, batch_size, overlap) up to the
\* while loop; it returns [] when no page is left after the filter.
BatchPages(batch_size, overlap) ==
    /\ call = "pages"
    /\ arg' = [pages |-> ret.pages, batch_size |-> batch_size, overlap |-> overlap]
    /\ LET txn_pages == TxnPages(ret.pages, 1)
       IN  IF txn_pages = <<>>
           THEN /\ call' = "batches"
                /\ ret' = [batches |-> <<>>, k |-> 0, outcomes |-> <<>>,
                           all_transactions |-> <<>>]
           ELSE /\ call' = "loop"
                /\ ret' = [txn_pages |-> txn_pages,
                           batch_size |-> AdaptiveBatchSize(txn_pages, batch_size),
                           batches |-> <<>>, i |-> 0]
    /\ UNCHANGED notUnit

\* One iteration of "while i < len(txn_pages)".
BatchLoop ==
    /\ call = "loop"
    /\ ret.i < Len(ret.txn_pages)
    /\ LET end == Min(ret.i + ret.batch_size, Len(ret.txn_pages))
           batch_items == SubSeq(ret.txn_pages, ret.i + 1, end)
           step == Max(1, ret.batch_size - arg.overlap)
       IN  ret' = [ret EXCEPT !.batches = Append(@, [page_numbers |-> PageNums(batch_items)]),
                              !.i = @ + step]
    /\ UNCHANGED <<call, arg, notUnit>>

\* The loop is left: return batches.
BatchReturn ==
    /\ call = "loop"
    /\ ~(ret.i < Len(ret.txn_pages))
    /\ call' = "batches"
    /\ ret' = [batches |-> ret.batches, k |-> 0, outcomes |-> <<>>,
               all_transactions |-> <<>>]
    /\ UNCHANGED <<arg, notUnit>>

\* What _extract_transactions returns for a batch the model answers: one
\* transaction per page of the batch.
BatchTxns(batch) == [j \in 1 .. Len(batch.page_numbers) |-> [page |-> batch.page_numbers[j]]]

\* ExtractionAgent.run, one iteration of "for i, batch in enumerate(batches)"
\* after _batch_pages_with_overlap(pages, bank=bank, batch_size=3, overlap=0):
\* _extract_transactions returns the batch's transactions, or raises (the
\* model call or the parsing of its answer) and the except logs it.
ExtractBatch ==
    /\ call = "batches"
    /\ arg.batch_size = 3
    /\ arg.overlap = 0
    /\ ret.k < Len(ret.batches)
    /\ \E out \in {"ok", "raise"} :
           ret' = [ret EXCEPT !.k = @ + 1,
                              !.outcomes = Append(@, out),
                              !.all_transactions =
                                  IF out = "ok" THEN @ \o BatchTxns(ret.batches[ret.k + 1])
                                  ELSE @]
    /\ UNCHANGED <<call, arg, notUnit>>

\* The for loop is left: pages_processed = len(batches).
ExtractBatchesDone ==
    /\ call = "batches"
    /\ arg.batch_size = 3
    /\ arg.overlap = 0
    /\ ret.k = Len(ret.batches)
    /\ call' = "llm_done"
    /\ UNCHANGED <<arg, ret, notUnit>>

BatchNext ==
    \/ \E batch_size \in 1 .. MaxBatch : \E overlap \in 0 .. MaxOverlap :
           BatchPages(batch_size, overlap)
    \/ BatchLoop
    \/ BatchReturn
    \/ ExtractBatch
    \/ ExtractBatchesDone

\* The function and the for loop of run are sequential code: they go on.
BatchSpec == BatchInit /\ [][BatchNext]_vars /\ WF_vars(BatchNext)

\* ---------------------------------------------------------------- balances of the metrics
\* balances = [t["balance"] for t in transactions if t.get("balance") is not None]
Balances(transactions) ==
    LET known == SelectSeq(transactions, LAMBDA t : t.balance # None)
    IN  [j \in 1 .. Len(known) |-> known[j].balance[1]]

\* The loop over the markers: the balance of the last marker of the type.
RECURSIVE MarkerBalance(_, _, _)
MarkerBalance(transactions, type, acc) ==
    IF transactions = <<>> THEN acc
    ELSE MarkerBalance(Tail(transactions), type,
                       IF Head(transactions).transaction_type = type
                       THEN Head(transactions).balance ELSE acc)

\* _compute_metrics: opening_balance, with the fallback to the first balance.
OpeningBalance(transactions) ==
    LET opening_balance == MarkerBalance(transactions, "opening_balance", None)
        balances == Balances(transactions)
    IN  IF opening_balance = None /\ balances # <<>> THEN <<balances[1]>>
        ELSE opening_balance

\* _compute_metrics: closing_balance, with the fallback to the last balance.
ClosingBalance(transactions) ==
    LET closing_balance == MarkerBalance(transactions, "closing_balance", None)
        balances == Balances(transactions)
    IN  IF closing_balance = None /\ balances # <<>> THEN <<balances[Len(balances)]>>
        ELSE closing_balance

\* The de-duplicated transactions of a statement are at hand.
MetricsInit ==
    /\ MainInit
    /\ PostIdle
    /\ AgentIdle
    /\ call = "transactions"
    /\ arg \in Lists(ChainTxns, MaxLen)
    /\ ret = <<>>

\* ExtractionAgent.run: balance_chain = _validate_balance_chain(all_transactions)
RunValidateChain ==
    /\ call = "transactions"
    /\ call' = "chain"
    /\ ret' = [balance_chain |-> ValidateBalanceChain(arg)]
    /\ UNCHANGED <<arg, notUnit>>

\* ExtractionAgent.run: metrics = _compute_metrics(all_transactions, account_info)
RunComputeMetrics ==
    /\ call = "chain"
    /\ call' = "metrics"
    /\ ret' = [balance_chain |-> ret.balance_chain,
               metrics |-> [opening_balance |-> OpeningBalance(arg),
                            closing_balance |-> ClosingBalance(arg),
                            sums |-> ComputeMetrics(arg)]]
    /\ UNCHANGED <<arg, notUnit>>

MetricsNext ==
    \/ RunValidateChain
    \/ RunComputeMetrics

MetricsSpec == MetricsInit /\ [][MetricsNext]_vars

\* ---------------------------------------------------------------- table extraction
\* Largest number of tables and table-less pages of a PDF drawn as input.
MaxTables == 3

\* A table is modelled by what the loop asks of it: the canonical names
\* _normalise_header finds in its header row, whether one of its cells
\* mentions "opening balance" or "account number", and the number of its
\* data rows (each with a date and an amount).
Table(date, balance, debit, mentions, rows) ==
    [mapped |-> (IF date THEN {"transaction_date"} ELSE {})
                    \cup (IF balance THEN {"balance"} ELSE {})
                    \cup (IF debit THEN {"debit", "credit"} ELSE {}),
     mentions |-> mentions, rows |-> rows]

\* A transaction table, one whose first data row reads "Opening Balance", a
\* header-only one, an account-info table, and a table with dates and
\* balances but no amount column.
TableKinds ==
    {Table(TRUE, TRUE, TRUE, FALSE, 1),
     Table(TRUE, TRUE, TRUE, TRUE, 1),
     Table(TRUE, TRUE, TRUE, FALSE, 0),
     Table(FALSE, FALSE, FALSE, TRUE, 1),
     Table(TRUE, TRUE, FALSE, FALSE, 1)}

\* What the two loops go through: a table of a page, or a page for which
\* extract_tables() returns nothing (table None).
PdfItems ==
    {[page_num |-> p, table |-> <<t>>] : p \in 0 .. 2, t \in TableKinds}
    \cup {[page_num |-> p, table |-> None] : p \in 0 .. 2}

\* The items of a PDF: pages in order from page 0 on, a table-less page
\* being one item.
IsPdf(items) ==
    /\ items # <<>> => items[1].page_num = 0
    /\ \A j \in 1 .. Len(items) - 1 :
           /\ items[j + 1].page_num \in {items[j].page_num, items[j].page_num + 1}
           /\ (items[j].table = None \/ items[j + 1].table = None)
                  => items[j + 1].page_num # items[j].page_num

\* The locals of _try_extract_tables before the loop over the pages.
TablesStart ==
    [n |-> 0, all_transactions |-> <<>>, account_info_table |-> 0,
     column_headers |-> None, header_only_count |-> 0, parsed |-> {}, result |-> "running"]

\* Is this a transaction table? Must have date + (debit or credit) + balance
IsTransactionTable(mapped) ==
    /\ "transaction_date" \in mapped
    /\ "balance" \in mapped
    /\ ("debit" \in mapped \/ "credit" \in mapped)

\* A PDF has been opened.
TablesInit ==
    /\ MainInit
    /\ PostIdle
    /\ AgentIdle
    /\ call = "tables"
    /\ arg \in {items \in Lists(PdfItems, MaxTables) : IsPdf(items)}
    /\ ret = TablesStart

\* A page without tables: "if not tables".
EmptyPage ==
    /\ call = "tables"
    /\ ret.n < Len(arg)
    /\ LET item == arg[ret.n + 1]
       IN  /\ item.table = None
           /\ IF item.page_num < 2 /\ ret.all_transactions = <<>>
              THEN /\ call' = "returned"
                   /\ ret' = [ret EXCEPT !.n = @ + 1, !.result = "None"]
              ELSE /\ call' = call
                   /\ ret' = [ret EXCEPT !.n = @ + 1]
    /\ UNCHANGED <<arg, notUnit>>

\* The body of "for table in tables" for the n-th item, on locals r.
Classify(item, n, r) ==
    LET table == item.table[1]
    IN  IF item.page_num = 0 /\ r.account_info_table = 0 /\ table.mentions
        THEN [r EXCEPT !.n = n, !.account_info_table = n]
        ELSE IF "transaction_date" \notin table.mapped THEN [r EXCEPT !.n = n]
        ELSE IF "balance" \notin table.mapped THEN [r EXCEPT !.n = n]
        ELSE IF "debit" \notin table.mapped /\ "credit" \notin table.mapped
        THEN [r EXCEPT !.n = n]
        ELSE IF table.rows + 1 < 2
        THEN [r EXCEPT !.n = n, !.header_only_count = @ + 1,
                       !.result = IF r.header_only_count + 1 >= 2 THEN "None" ELSE @]
        ELSE [r EXCEPT !.n = n, !.column_headers = <<table.mapped>>,
                       !.parsed = @ \cup {n},
                       !.all_transactions = @ \o [j \in 1 .. table.rows |-> n]]

\* One table of a page.
ClassifyTable ==
    /\ call = "tables"
    /\ ret.n < Len(arg)
    /\ arg[ret.n + 1].table # None
    /\ ret' = Classify(arg[ret.n + 1], ret.n + 1, ret)
    /\ call' = IF ret'.result = "None" THEN "returned" ELSE call
    /\ UNCHANGED <<arg, notUnit>>

\* After the loops: None without transactions, the dict otherwise.
TablesReturn ==
    /\ call = "tables"
    /\ ret.n = Len(arg)
    /\ call' = "returned"
    /\ ret' = [ret EXCEPT !.result = IF ret.all_transactions = <<>> THEN "None" ELSE "dict"]
    /\ UNCHANGED <<arg, notUnit>>

TablesNext ==
    \/ EmptyPage
    \/ ClassifyTable
    \/ TablesReturn

TablesSpec == TablesInit /\ [][TablesNext]_vars

\* ---------------------------------------------------------------- direction of the list
\* _quick_chain_score: limit=20 and the tolerance of 0.02 in thousandths.
QuickLimit == 20
QuickTolerance == 20

\* list(reversed(txns))
Reverse(records) == [j \in 1 .. Len(records) |-> records[Len(records) + 1 - j]]

\* The loop of _quick_chain_score over subset, from index i on.
RECURSIVE QuickLoop(_, _, _)
QuickLoop(subset, i, valid) ==
    IF i > Len(subset) THEN valid
    ELSE LET exp == Expected(subset[i - 1], subset[i])
         IN  QuickLoop(subset, i + 1,
                       IF Abs(exp - subset[i].balance[1]) <= QuickTolerance
                       THEN valid + 1 ELSE valid)

\* _quick_chain_score(txns, limit=20)
QuickChainScore(records) ==
    LET known == SelectSeq(records, LAMBDA t : t.transaction_type \in {"credit", "debit"}
                                             /\ t.balance # None)
        subset == SubSeq(known, 1, Min(Len(known), QuickLimit))
    IN  IF Len(subset) < 2 THEN 0 ELSE QuickLoop(subset, 2, 0)

\* _try_extract_words has assembled final_transactions.
SniffInit ==
    /\ MainInit
    /\ PostIdle
    /\ AgentIdle
    /\ call = "final_transactions"
    /\ arg \in Lists(ChainTxns, MaxLen)
                \cup {Repeat(L, MaxRep) : L \in Lists(ChainTxns, MaxLen)}
    /\ ret = <<>>

\* The two scores and final_transactions.reverse() when rev_score > fwd_score.
SniffDirection ==
    /\ call = "final_transactions"
    /\ arg # <<>>
    /\ LET fwd_score == QuickChainScore(arg)
           rev_score == QuickChainScore(Reverse(arg))
       IN  ret' = [fwd_score |-> fwd_score, rev_score |-> rev_score,
                   reversed |-> rev_score > fwd_score,
                   final_transactions |-> IF rev_score > fwd_score THEN Reverse(arg)
                                          ELSE arg]
    /\ call' = "sniffed"
    /\ UNCHANGED <<arg, notUnit>>

\* ExtractionAgent.run on the word result: de-duplication, then
\* balance_chain = _validate_balance_chain(all_transactions).
RunWordsChain ==
    /\ call = "sniffed"
    /\ call' = "validated"
    /\ ret' = [fwd_score |-> ret.fwd_score, rev_score |-> ret.rev_score,
               reversed |-> ret.reversed, final_transactions |-> ret.final_transactions,
               balance_chain |->
                   ValidateBalanceChain(DeduplicateTransactions(ret.final_transactions))]
    /\ UNCHANGED <<arg, notUnit>>

SniffNext ==
    \/ SniffDirection
    \/ RunWordsChain

SniffSpec == SniffInit /\ [][SniffNext]_vars

\* ---------------------------------------------------------------- word rows
\* Largest number of rows and page breaks of a PDF drawn as input.
MaxRows == 4

\* A row of a page is modelled by the texts the loop reads: row_full and
\* the texts of the date, description, withdrawal, deposit and balance
\* columns.  A page break carries the text found above the data area of
\* the page it opens.  Rows matched by the summary and footer patterns are
\* left out of the input.
Row(row_full, date_text, desc_text, w_text, b_text) ==
    [kind |-> "row", header |-> "", row_full |-> row_full, date_text |-> date_text,
     desc_text |-> desc_text, w_text |-> w_text, d_text |-> "", b_text |-> b_text]

PageBreak(header) ==
    [kind |-> "page", header |-> header, row_full |-> "", date_text |-> "",
     desc_text |-> "", w_text |-> "", d_text |-> "", b_text |-> ""]

\* A dated row with and without balance, a row without date that has an
\* amount and a balance, one that has an amount only, the two balance
\* entries, a row whose sole content is "USD", and the page breaks.
WordItems ==
    {Row("row", "01 JAN", "PAYMENT", "5.00", "10.00"),
     Row("row", "01 JAN", "PAYMENT", "5.00", ""),
     Row("row", "", "TRANSFER", "5.00", "10.00"),
     Row("row", "", "", "5.00", ""),
     Row("row", "", "BALANCE B/F", "", "10.00"),
     Row("row", "", "BALANCE C/F", "", "10.00"),
     Row("USD", "", "USD", "", ""),
     PageBreak(""),
     PageBreak("USD")}

\* _CURRENCY_CODES, as far as the texts of the model go.
CurrencyCodes == {"SGD", "USD"}

\* re.match(r'^\(?[A-Z]{3}\)?$', row_full), on the texts of the model.
IsHeaderRemnant(row_full) == row_full \in {"USD", "SGD", "(SGD)"}

\* is_balance_entry, is_opening and is_closing, on the texts of the model.
IsOpening(desc_text) == desc_text = "BALANCE B/F"
IsClosing(desc_text) == desc_text = "BALANCE C/F"
IsBalanceEntry(desc_text) == IsOpening(desc_text) \/ IsClosing(desc_text)

\* The locals of _try_extract_words before the loop over the pages; the
\* first page has no currency above its data area.  `started' is history:
\* the rows at which a transaction was started.
WordsStart ==
    [n |-> 0, page_idx |-> 0, all_transactions |-> <<>>, current_txn |-> None,
     current_currency |-> "SGD", current_account_section |-> 0,
     past_closing |-> FALSE, started |-> <<>>]

\* The transaction started at row n with the given dates.
NewTxn(r, n, row, txn_date, desc) ==
    [first_row |-> n, txn_date |-> txn_date, description |-> desc,
     withdrawal |-> row.w_text, deposit |-> row.d_text, balance |-> row.b_text,
     currency |-> r.current_currency, account_section |-> r.current_account_section,
     page_number |-> r.page_idx + 1]

\* The sub-transaction rule with the balance of the current transaction
\* not looked at.
IsSubTransactionAnyBalance(current_txn, b_text) == b_text # ""

\* txn_has_balance and new_has_balance
IsSubTransaction(current_txn, b_text) == current_txn.balance # "" /\ b_text # ""

\* The body of "for y in sorted_ys" for the n-th item, a row, on locals r.
RowBody(r, n, row) ==
    LET r1 == [r EXCEPT !.n = n]
        has_txn_date == row.date_text # ""
        is_balance_entry == IsBalanceEntry(row.desc_text)
        past_closing == IF IsOpening(row.desc_text) THEN FALSE ELSE r.past_closing
        r2 == [r1 EXCEPT !.past_closing = past_closing]
        has_amount == row.w_text # "" \/ row.d_text # "" \/ row.b_text # ""
        has_desc == row.desc_text # ""
    IN  IF IsHeaderRemnant(row.row_full) THEN r1
        ELSE IF row.row_full \in CurrencyCodes
        THEN [r1 EXCEPT !.all_transactions =
                            IF r.current_txn # None THEN Append(@, r.current_txn[1]) ELSE @,
                        !.current_txn = None,
                        !.current_currency = row.row_full,
                        !.current_account_section =
                            IF row.row_full # r.current_currency THEN @ + 1 ELSE @]
        ELSE IF ~IsOpening(row.desc_text) /\ r.past_closing /\ ~is_balance_entry THEN r1
        ELSE IF has_txn_date \/ is_balance_entry
        THEN [r2 EXCEPT !.all_transactions =
                            IF r.current_txn # None THEN Append(@, r.current_txn[1]) ELSE @,
                        !.past_closing = IF IsClosing(row.desc_text) THEN TRUE ELSE @,
                        !.current_txn = <<NewTxn(r, n, row, n, row.desc_text)>>,
                        !.started = Append(@, n)]
        ELSE IF r.current_txn # None /\ has_amount
        THEN IF IsSubTransaction(r.current_txn[1], row.b_text)
             THEN [r2 EXCEPT !.all_transactions = Append(@, r.current_txn[1]),
                             !.current_txn = <<NewTxn(r, n, row, r.current_txn[1].txn_date,
                                                      row.desc_text)>>,
                             !.started = Append(@, n)]
             ELSE LET c == r.current_txn[1]
                  IN  [r2 EXCEPT !.current_txn =
                          <<[c EXCEPT !.description = IF has_desc THEN "more" ELSE @,
                                      !.withdrawal = IF @ = "" THEN row.w_text ELSE @,
                                      !.deposit = IF @ = "" THEN row.d_text ELSE @,
                                      !.balance = IF @ = "" THEN row.b_text ELSE @]>>]
        ELSE IF r.current_txn # None /\ has_desc
        THEN [r2 EXCEPT !.current_txn = <<[r.current_txn[1] EXCEPT !.description = "more"]>>]
        ELSE r2

\* "Flush last transaction on the page", on locals r.
FlushPage(r) ==
    [r EXCEPT !.all_transactions =
                  IF r.current_txn # None THEN Append(@, r.current_txn[1]) ELSE @,
              !.current_txn = None]

\* The words of the transaction pages of a PDF have been read.
WordsInit ==
    /\ MainInit
    /\ PostIdle
    /\ AgentIdle
    /\ call = "words"
    /\ arg \in Lists(WordItems, MaxRows)
    /\ ret = WordsStart

\* One row of the page.
RowStep ==
    /\ call = "words"
    /\ ret.n < Len(arg)
    /\ arg[ret.n + 1].kind = "row"
    /\ ret' = RowBody(ret, ret.n + 1, arg[ret.n + 1])
    /\ UNCHANGED <<call, arg, notUnit>>

\* The end of a page and the start of the next: the flush, then the
\* currency above the data area, current_txn = None and past_closing = False.
NextPage ==
    /\ call = "words"
    /\ ret.n < Len(arg)
    /\ arg[ret.n + 1].kind = "page"
    /\ LET new_ccy == arg[ret.n + 1].header
           r == FlushPage(ret)
           section == new_ccy \in CurrencyCodes /\ new_ccy # ret.current_currency
       IN  ret' = [r EXCEPT !.n = @ + 1, !.page_idx = @ + 1, !.past_closing = FALSE,
                            !.current_currency = IF section THEN new_ccy ELSE @,
                            !.current_account_section = IF section THEN @ + 1 ELSE @]
    /\ UNCHANGED <<call, arg, notUnit>>

\* The end of the last page: the flush, then pdf.close().
LastPage ==
    /\ call = "words"
    /\ ret.n = Len(arg)
    /\ ret' = FlushPage(ret)
    /\ call' = "assembled"
    /\ UNCHANGED <<arg, notUnit>>

WordsNext ==
    \/ RowStep
    \/ NextPage
    \/ LastPage

WordsSpec == WordsInit /\ [][WordsNext]_vars

\* ---------------------------------------------------------------- concurrent extraction runs
\* The documents of a group are extracted by ExtractionAgent.run in worker
\* threads of their own, each with its own session; a run has its
\* de-duplicated transactions and is about to store them.  ret holds the
\* locals of the run of each document.
ConcInit ==
    /\ docStatus = [d \in DocIds |-> "processing"]
    /\ agentResult = [d \in DocIds |-> [a \in AgentTypes |-> NoRow]]
    /\ groupResult = [a \in GroupAgentTypes |-> <<>>]
    /\ queue = [r \in Slots |-> <<>>]
    /\ pc = [r \in Slots |-> "idle"]
    /\ cur = [r \in Slots |-> 0]
    /\ idx = [r \in Slots |-> 0]
    /\ grow = [r \in Slots |-> 0]
    /\ ntasks = 0
    /\ reran = [d \in DocIds |-> [a \in AgentTypes |-> FALSE]]
    /\ rerun = [r \in Slots |-> FALSE]
    /\ concTrig = [d \in DocIds |-> FALSE]
    /\ everAllDone = FALSE
    /\ resp = "none"
    /\ flaky = {}
    /\ PostIdle
    /\ AgentIdle
    /\ call = "runs"
    /\ arg \in [DocIds -> Lists({Txn("short", <<10000>>, "credit", 0),
                                 Txn("short", <<10000>>, "debit", 0)}, 1)]
    /\ ret = [d \in DocIds |-> [pc |-> "store_transactions", all_metrics |-> None]]

\* 7. self._store_transactions(doc, all_transactions, db), with its commit.
ConcStoreTransactions(d) ==
    /\ call = "runs"
    /\ ret[d].pc = "store_transactions"
    /\ rawTxns' = [rawTxns EXCEPT ![d] = StoredRows(arg[d])]
    /\ ret' = [ret EXCEPT ![d].pc = "store_metrics"]
    /\ UNCHANGED <<main, post, env, call, arg, stmtMetrics, aggMetrics, ex>>

\* 8. metrics = _compute_metrics(...); self._store_metrics(doc, metrics, db),
\* with its commit.
ConcStoreMetrics(d) ==
    /\ call = "runs"
    /\ ret[d].pc = "store_metrics"
    /\ stmtMetrics' = [stmtMetrics EXCEPT ![d] = <<ComputeMetrics(arg[d])>>]
    /\ ret' = [ret EXCEPT ![d].pc = "query"]
    /\ UNCHANGED <<main, post, env, call, arg, rawTxns, aggMetrics, ex>>

\* _update_aggregated_metrics: all_metrics = db.query(StatementMetrics)
\* .filter(group).all(), the rows committed at that moment.
ConcQueryMetrics(d) ==
    /\ call = "runs"
    /\ ret[d].pc = "query"
    /\ ret' = [ret EXCEPT ![d].pc = "refresh", ![d].all_metrics = <<stmtMetrics>>]
    /\ UNCHANGED <<main, post, env, call, arg, rawTxns, stmtMetrics, aggMetrics, ex>>

\* _update_aggregated_metrics: the delete of the group's row, db.add(agg)
\* built from all_metrics, db.commit(); then run returns.
ConcRefresh(d) ==
    /\ call = "runs"
    /\ ret[d].pc = "refresh"
    /\ aggMetrics' = Aggregated(ret[d].all_metrics[1], aggMetrics)
    /\ ret' = [ret EXCEPT ![d].pc = "done"]
    /\ UNCHANGED <<main, post, env, call, arg, rawTxns, stmtMetrics, ex>>

ConcNext ==
    \/ \E d \in DocIds : ConcStoreTransactions(d)
    \/ \E d \in DocIds : ConcStoreMetrics(d)
    \/ \E d \in DocIds : ConcQueryMetrics(d)
    \/ \E d \in DocIds : ConcRefresh(d)

ConcSpec == ConcInit /\ [][ConcNext]_vars

\* ---------------------------------------------------------------- specification
TaskStep(r) ==
    \/ StartTask(r)
    \/ QueryAgent(r)
    \/ EnterAgent(r)
    \/ RunAgent(r)
    \/ MarkCompleted(r)
    \/ GroupCheck(r)
    \/ GroupStart(r)
    \/ GroupQuery(r)
    \/ GroupEnter(r)
    \/ GroupRun(r)

Next ==
    \/ \E n \in 1 .. MaxDocs : Upload(n)
    \/ \E d \in DocIds : AnalyzeDocument(d)
    \/ AnalyzeGroup
    \/ GetGroupStatus
    \/ \E r \in Slots : StartTask(r)
    \/ \E r \in Slots : QueryAgent(r)
    \/ \E r \in Slots : EnterAgent(r)
    \/ \E r \in Slots : RunAgent(r)
    \/ \E r \in Slots : MarkCompleted(r)
    \/ \E r \in Slots : GroupCheck(r)
    \/ \E r \in Slots : GroupStart(r)
    \/ \E r \in Slots : GroupQuery(r)
    \/ \E r \in Slots : GroupEnter(r)
    \/ \E r \in Slots : GroupRun(r)

Spec == Init /\ [][Next]_vars

\* Tasks are worker threads: a task that can take a step eventually does.
FairSpec == Init /\ [][Next]_vars /\ \A r \in Slots : WF_vars(TaskStep(r))

TypeOK ==
    /\ \A d \in DocIds : docStatus[d] \in {"none", "uploaded", "processing", "completed", "failed"}
    /\ \A r \in Slots : pc[r] \in {"idle", "query", "enter", "run", "mark", "gcheck",
                                   "gdocs", "gquery", "genter", "grun"}
    /\ ntasks <= MaxTasks

\* ---------------------------------------------------------------- properties
\* The document has been handed to an analyze handler at least once.
Analysed(d) == docStatus[d] \notin {"none", "uploaded"}

\* Every document of the group is Completed (written out, for the properties).
EveryDocCompleted == \A d \in GroupDocs : docStatus[d] = "completed"

SomeGroupResult == \E a \in GroupAgentTypes : groupResult[a] # <<>>

\* Task r takes a step.
Moved(r) == pc'[r] # pc[r] \/ idx'[r] # idx[r]

\* C1: at-most-once agent execution.  Two tasks never execute the same agent
\* of the same document at the same time, and once the tasks of concurrently
\* triggered runs on a document have ended, every agent type has a Completed
\* AgentResult and its run was called exactly once.
C1_AtMostOnce ==
    /\ \A r, s \in Slots :
          (r # s /\ pc[r] = "run" /\ pc[s] = "run" /\ cur[r] = cur[s])
              => idx[r] # idx[s]
    /\ \A d \in DocIds :
          (concTrig[d] /\ ~InFlight(d)) =>
              \A a \in AgentTypes :
                  agentResult[d][a].status = "completed" /\ ~reran[d][a]

AllowedTransitions ==
    {<<"none", "pending">>, <<"pending", "running">>, <<"failed", "running">>,
     <<"running", "completed">>, <<"running", "failed">>}

\* C3: every change of an AgentResult status is one of the allowed
\* transitions, and a task enters an agent (sets Running and goes on to run
\* it) only from Pending or Failed: never from Completed, never from Running.
C3_Transitions ==
    [][\A d \in DocIds : \A a \in AgentTypes :
          /\ agentResult'[d][a].status # agentResult[d][a].status
                => <<agentResult[d][a].status, agentResult'[d][a].status>> \in AllowedTransitions
          /\ \A r \in Slots :
                (pc[r] = "enter" /\ pc'[r] = "run" /\ cur[r] = d /\ PipelineOrder[idx[r]] = a)
                    => agentResult[d][a].status \in {"pending", "failed"}]_vars

Finished(d, a) == agentResult[d][a].status \in {"completed", "failed"}

\* Task r is executing agent a (between the Running commit and the outcome).
Executing(r, a) == pc[r] = "run" /\ PipelineOrder[idx[r]] = a

\* C4: wave ordering.  While Extraction executes, Layout and Tampering have
\* finished; while Fraud or Insights executes, Extraction has finished; and a
\* task that has marked its document Completed has Fraud and Insights finished.
C4_WaveOrder ==
    \A r \in Slots :
        /\ Executing(r, "extraction")
              => (Finished(cur[r], "layout") /\ Finished(cur[r], "tampering"))
        /\ (Executing(r, "fraud") \/ Executing(r, "insights"))
              => Finished(cur[r], "extraction")
        /\ pc[r] = "gcheck"
              => (Finished(cur[r], "fraud") /\ Finished(cur[r], "insights"))

C6_ExtractionCompletes ==
    \A d \in DocIds :
        (Analysed(d) /\ ~InFlight(d)) => agentResult[d]["extraction"].status = "completed"

\* C7: a group agent enters Running only in a state in which every Document
\* of the group is Completed and the group has more than one Document, and
\* run_group_agents started on a group with a non-Completed Document ends
\* without touching a GroupAgentResult.
C7_GroupGate ==
    [][\A r \in Slots :
          /\ (pc[r] = "genter" /\ pc'[r] = "grun")
                => (EveryDocCompleted /\ Cardinality(GroupDocs) > 1)
          /\ (pc[r] = "gdocs" /\ Moved(r) /\ ~EveryDocCompleted)
                => (pc'[r] = "idle" /\ groupResult' = groupResult)]_vars

C9_GroupOnce ==
    /\ \A a \in GroupAgentTypes : Len(groupResult[a]) <= 1
    /\ \A r, s \in Slots :
          (r # s /\ pc[r] = "grun" /\ pc[s] = "grun") => idx[r] # idx[s]

\* C11: once the group runs on a group of at least two Completed documents
\* have ended, tampering, fraud and insights each have a GroupAgentResult
\* with status Completed, created in that order.
C11_GroupAllCompleted ==
    /\ groupResult["fraud"] # <<>> => groupResult["tampering"] # <<>>
    /\ groupResult["insights"] # <<>> => groupResult["fraud"] # <<>>
    /\ (groupResult["insights"] # <<>> /\ \A r \in Slots : Free(r)) =>
          \A a \in GroupAgentTypes :
              \A i \in 1 .. Len(groupResult[a]) :
                  groupResult[a][i].status = "completed"

\* The changes of Document.status the specification allows.
AllowedDocTransitions ==
    {<<"none", "uploaded">>, <<"uploaded", "processing">>,
     <<"processing", "completed">>, <<"processing", "failed">>,
     <<"failed", "processing">>}

\* C12: Document.status only moves along Uploaded -> Processing ->
\* {Completed, Failed}, the one backward change being Failed -> Processing;
\* a Completed document never returns to Processing.
C12_DocMonotonic ==
    [][\A d \in DocIds :
          docStatus'[d] # docStatus[d]
              => <<docStatus[d], docStatus'[d]>> \in AllowedDocTransitions]_vars

\* C13: POST /analyze/{document_id} on a Processing document answers 409 and
\* changes nothing: no task is enqueued, the Document status and every
\* AgentResult stay as they are.
C13_ConflictNoChange ==
    [][\A d \in DocIds :
          (docStatus[d] = "processing" /\ AnalyzeDocument(d))
              => (resp' = "409" /\ UNCHANGED <<store, task, req>>)]_vars

C13_Witness ==
    /\ resp = "409"
    /\ \E d \in DocIds : docStatus[d] = "processing" /\ InFlight(d)

\* The statuses of the first GroupAgentResult of each group agent type
\* ("none" when there is no row).
GroupAgentStatus(a) ==
    IF groupResult[a] = <<>> THEN "none" ELSE groupResult[a][1].status

\* C14: GET /status/group answers overall_status "completed" only when every
\* document is Completed and, for a group of more than one document, the
\* three group agents have all reached Completed.
C14_CompletedMeansAllDone ==
    resp = "completed" =>
        /\ EveryDocCompleted
        /\ Cardinality(GroupDocs) > 1 =>
              \A a \in GroupAgentTypes : GroupAgentStatus(a) = "completed"

\* C15: GET /status/group answers overall_status "processing" exactly when a
\* document of the group is Processing; a group whose documents are all
\* Uploaded is answered "uploaded".
C15_ProcessingIffInFlight ==
    resp \in {"uploaded", "processing", "group_processing", "completed", "failed"} =>
        /\ resp = "processing" <=> \E d \in GroupDocs : docStatus[d] = "processing"
        /\ (\A d \in GroupDocs : docStatus[d] = "uploaded") => resp = "uploaded"

\* The number of run_all_agents tasks queued or running for document d.
Pipelines(d) ==
    Cardinality({r \in Slots : pc[r] # "idle" /\ cur[r] = d})
    + Cardinality({<<r, i>> \in Slots \X (1 .. MaxTasks) :
                       i <= Len(queue[r]) /\ queue[r][i] = d})

\* C28: at any time at most one run_all_agents pipeline is queued or running
\* for a document.
C28_OnePipeline ==
    \A d \in DocIds : Pipelines(d) <= 1

\* C29: an AgentResult or GroupAgentResult with status Completed has a null
\* error_message, also after Failed -> Running -> Completed.
C29_CompletedNoError ==
    /\ \A d \in DocIds : \A a \in AgentTypes :
          agentResult[d][a].status = "completed" => agentResult[d][a].err = "null"
    /\ \A a \in GroupAgentTypes : \A i \in 1 .. Len(groupResult[a]) :
          groupResult[a][i].status = "completed" => groupResult[a][i].err = "null"

\* The summaries that say that there is no transaction data.
NoDataSummaries ==
    {"No transactions available for fraud analysis.",
     "Insights failed: No transactions found - run extraction first"}

\* C16: zero-transaction boundary.  Once the runs on a document whose
\* extraction finds no transactions have ended, no RawTransaction is stored,
\* a StatementMetrics row with zero counts and sums exists, the Document is
\* Completed, and Fraud and Insights are Completed with risk_level low and a
\* summary saying that no transaction data is available.
C16_ZeroTransactions ==
    \A d \in DocIds :
        (Analysed(d) /\ ~InFlight(d) /\ rawTxns[d] = <<>>) =>
            /\ stmtMetrics[d] = <<ComputeMetrics(<<>>)>>
            /\ docStatus[d] = "completed"
            /\ \A a \in {"fraud", "insights"} :
                  /\ agentResult[d][a].status = "completed"
                  /\ agentResult[d][a].risk_level = "low"
                  /\ agentResult[d][a].summary \in NoDataSummaries

\* C17: Extraction commits only at the agent boundary.  When a run of
\* ExtractionAgent.run has raised, the RawTransactions and the
\* StatementMetrics of its document and the AggregatedMetrics of the group
\* are what they were when the run started.
C17_CommitAtBoundary ==
    ex.pc = "failed" =>
        /\ rawTxns[ex.doc] = ex.before.raw
        /\ stmtMetrics[ex.doc] = ex.before.metrics
        /\ aggMetrics = ex.before.agg

\* A tier result with at least one transaction.
Yielded(res) == res # <<>> /\ Len(res[1]) > 0

\* C18: tier cascade.  Tier B runs only if Tier A yielded no transactions
\* and the PDF is not scanned; Tier C runs only if the PDF is scanned or
\* Tiers A and B both yielded none; the transactions handed to
\* de-duplication come from exactly one tier that ran, and
\* extraction_method names it.
C18_TierCascade ==
    /\ "B" \in ex.ran => (~ex.is_scanned /\ ~Yielded(ex.table_result))
    /\ "C" \in ex.ran =>
          (ex.is_scanned \/ (~Yielded(ex.table_result) /\ ~Yielded(ex.word_result)))
    /\ ex.pc \in {"dedup", "store_transactions", "store_metrics", "aggregate", "done"} =>
          /\ ex.src \subseteq ex.ran
          /\ \/ ex.src = {"A"} /\ ex.extraction_method = "table"
             \/ ex.src = {"B"} /\ ex.extraction_method = "words"
             \/ ex.src = {"C"} /\ ex.extraction_method \in {"llm", "ocr+llm"}

C18_Witness ==
    /\ ex.pc = "done"
    /\ ex.ran = {"A", "B", "C"}
    /\ ex.extraction_method = "llm"
    /\ Len(ex.all_transactions) = 1

\* The subsequence of L at the indices in I.
Pick(L, I) ==
    LET F[i \in 0 .. Len(L)] ==
            IF i = 0 THEN <<>>
            ELSE IF i \in I THEN Append(F[i - 1], L[i]) ELSE F[i - 1]
    IN F[Len(L)]

\* The first occurrences of each exact fingerprint in L.
FirstExact(L) ==
    Pick(L, {i \in 1 .. Len(L) :
                ~\E j \in 1 .. (i - 1) : ExactKey(L[j]) = ExactKey(L[i])})

\* L without the credit/debit records with known balance whose fuzzy
\* fingerprint occurs earlier in L.
FirstFuzzy(L) ==
    Pick(L, {i \in 1 .. Len(L) :
                ~(FuzzyEligible(L[i]) /\
                  \E j \in 1 .. (i - 1) :
                      FuzzyEligible(L[j]) /\ FuzzyKey(L[j]) = FuzzyKey(L[i]))})

\* C19: de-duplication keeps the first occurrence of each exact fingerprint
\* and then of each fuzzy fingerprint, and is idempotent: applied to its own
\* result it returns that result.
C19_DedupIdempotent ==
    [][/\ (fnpc = "input" /\ fnpc' = "dedup")
             => txns' = FirstFuzzy(FirstExact(txns))
       /\ (fnpc = "dedup" /\ fnpc' = "dedup2")
             => (txns' = txns /\ prev' = txns')]_vars

C19_Witness ==
    /\ fnpc = "dedup2"
    /\ txns = prev
    /\ Len(txns) >= 2
    /\ \E i, j \in 1 .. Len(txns) :
          i < j /\ txns[i].balance = txns[j].balance
                /\ Desc60(txns[i].description) = Desc60(txns[j].description)

\* The section a record of L belongs to: its account_section when any record
\* of L carries a non-zero tag, else the number of opening_balance markers
\* after the first record up to it.
SectionOf(L, i) ==
    IF HasSections(L) THEN L[i].account_section
    ELSE Cardinality({j \in 2 .. i : L[j].transaction_type = "opening_balance"})

\* The credit/debit records of L with known balance.
Chained(L) ==
    {i \in 1 .. Len(L) :
        L[i].transaction_type \in {"credit", "debit"} /\ L[i].balance # None}

\* The pairs <<i, j>> of consecutive chained records of the same section.
CheckedPairs(L) ==
    {<<i, j>> \in Chained(L) \X Chained(L) :
        /\ i < j
        /\ SectionOf(L, i) = SectionOf(L, j)
        /\ ~\E k \in Chained(L) : i < k /\ k < j /\ SectionOf(L, k) = SectionOf(L, j)}

\* The pairs whose balances agree within the tolerance.
ValidPairs(L) ==
    {x \in CheckedPairs(L) :
        Abs(Expected(L[x[1]], L[x[2]]) - L[x[2]].balance[1]) <= Tolerance}

\* What C20 says of the report apart from the accuracy.
ChainCounts ==
    /\ report.total_checked = Cardinality(CheckedPairs(txns))
    /\ report.valid = Cardinality(ValidPairs(txns))
    /\ report.valid + report.invalid = report.total_checked
    /\ Len(report.breaks) <= MaxBreaks

\* C20 as stated: the report counts the consecutive credit/debit pairs with
\* known balance of each section, valid + invalid = total_checked, at most
\* 20 breaks are listed, and chain_accuracy_pct / 100 = valid / total_checked.
C20_ChainExact ==
    fnpc = "chain" =>
        /\ ChainCounts
        /\ report.chain_accuracy_pct * report.total_checked = 1000 * report.valid

\* C20 amended: as above, but chain_accuracy_pct is valid / total_checked in
\* percent rounded to one decimal (within 0.05 of it), and 100.0 when nothing
\* was checked.
C20_ChainRounded ==
    fnpc = "chain" =>
        /\ ChainCounts
        /\ report.total_checked = 0 => report.chain_accuracy_pct = 1000
        /\ report.total_checked > 0 =>
              2 * Abs(report.chain_accuracy_pct * report.total_checked
                      - 1000 * report.valid) <= report.total_checked

C20_Witness ==
    /\ fnpc = "chain"
    /\ report.sections >= 2
    /\ report.breaks # <<>>
    /\ report.valid > 0
    /\ report.chain_accuracy_pct * report.total_checked # 1000 * report.valid

\* C10: group liveness.  Once every document of a group of at least two has
\* been handed to the orchestrator, GroupAgentResults for tampering, fraud
\* and insights eventually exist.
C10_GroupLiveness ==
    (Cardinality(GroupDocs) >= 2 /\ \A d \in GroupDocs : Analysed(d))
        ~> (\A a \in GroupAgentTypes : groupResult[a] # <<>>)

C10_Witness ==
    /\ Cardinality(GroupDocs) >= 2
    /\ \A r \in Slots : Free(r)
    /\ \A a \in GroupAgentTypes : groupResult[a] # <<>>

\* C24: risk roll-up.  For a list of check results with f failed and w
\* warning checks, the Tampering and the Fraud roll-up both return critical
\* if f >= 4, high if f >= 2, medium if f >= 1 or w >= 3, else low, and the
\* score 3 * f + w.
C24_RiskRollUp ==
    call \in {"tampering", "fraud"} =>
        LET f == Cardinality({i \in 1 .. Len(arg) : arg[i] = "fail"})
            w == Cardinality({i \in 1 .. Len(arg) : arg[i] = "warning"})
        IN  /\ ret.risk_score = 3 * f + w
            /\ f >= 4 => ret.risk_level = "critical"
            /\ (f >= 2 /\ f < 4) => ret.risk_level = "high"
            /\ (f < 2 /\ (f >= 1 \/ w >= 3)) => ret.risk_level = "medium"
            /\ (f = 0 /\ w < 3) => ret.risk_level = "low"

\* One failed check among passing ones has been rolled up to medium.
C24_Witness ==
    /\ call = "tampering"
    /\ Len(arg) >= 3
    /\ Cardinality({i \in 1 .. Len(arg) : arg[i] = "fail"}) = 1
    /\ \A i \in 1 .. Len(arg) : arg[i] \in {"fail", "pass"}
    /\ ret.risk_level = "medium"
    /\ ret.risk_score = 3

\* The page numbers of the batches, one after the other.
RECURSIVE Flatten(_)
Flatten(batches) ==
    IF batches = <<>> THEN <<>> ELSE Head(batches).page_numbers \o Flatten(Tail(batches))

\* The pages of the input that bear transactions, in page order.
Bearing(pages) ==
    {n \in 1 .. Len(pages) : ~pages[n].skip /\ pages[n].has_transactions}

\* The batches are built, with overlap 0: every transaction-bearing page is in
\* exactly one batch, in page order, and no batch is larger than batch_size,
\* nor than 2 when the pages batched have more than 1500 characters on average.
BatchesPartition ==
    (call \in {"batches", "llm_done"} /\ arg.overlap = 0) =>
        LET flat == Flatten(ret.batches)
            bearing == Bearing(arg.pages)
            chars == SumChars(TxnPages(arg.pages, 1))
        IN  /\ Len(flat) = Cardinality(bearing)
            /\ {flat[j] : j \in 1 .. Len(flat)} = bearing
            /\ \A j \in 1 .. Len(flat) - 1 : flat[j] < flat[j + 1]
            /\ \A b \in 1 .. Len(ret.batches) :
                   /\ Len(ret.batches[b].page_numbers) >= 1
                   /\ Len(ret.batches[b].page_numbers) <= arg.batch_size
                   /\ chars > 1500 * Cardinality(bearing) =>
                          Len(ret.batches[b].page_numbers) <= 2

\* The transactions of the batches up to the k-th whose call did not fail.
RECURSIVE Contributed(_, _, _)
Contributed(batches, outcomes, k) ==
    IF k = 0 THEN <<>>
    ELSE Contributed(batches, outcomes, k - 1)
         \o (IF outcomes[k] = "ok" THEN BatchTxns(batches[k]) ELSE <<>>)

\* all_transactions holds what the batches that did not fail returned, and
\* when the loop is left every batch has been tried.
FailedBatchSkipped ==
    /\ call \in {"batches", "llm_done"} =>
           /\ Len(ret.outcomes) = ret.k
           /\ ret.all_transactions = Contributed(ret.batches, ret.outcomes, ret.k)
    /\ call = "llm_done" => ret.k = Len(ret.batches)

\* C27: Tier C batching.  For every list of pages, batch_size >= 1 and
\* overlap >= 0 the construction of the batches terminates; with overlap 0
\* every transaction-bearing page is in exactly one batch, page order is kept
\* and a batch holds at most batch_size pages (2 when the text is dense); a
\* batch whose model call fails adds no transaction and the batches after it
\* are still processed.
C27_Batching ==
    /\ [](BatchesPartition /\ FailedBatchSkipped)
    /\ (call = "loop") ~> (call = "batches")
    /\ (call = "batches" /\ arg.batch_size = 3 /\ arg.overlap = 0) ~> (call = "llm_done")

\* Three dense pages were batched two and one, the first batch failed and the
\* second one was processed.
C27_Witness ==
    /\ call = "llm_done"
    /\ Len(ret.batches) = 2
    /\ Len(ret.batches[1].page_numbers) = 2
    /\ ret.outcomes = <<"raise", "ok">>
    /\ Len(ret.all_transactions) = 1
    /\ Len(arg.pages) > Len(Flatten(ret.batches))

\* C21: accounting equation.  For a list of one currency (one account section)
\* whose chain accuracy is 100%, the metrics satisfy
\* |opening + credits - debits - closing| <= 0.02 * max(|closing|, 1)
\* (amounts in thousandths: 50 * |...| <= max(|closing|, 1000)), also when
\* opening and closing are the first and last known balance.
C21_AccountingEquation ==
    (/\ call = "metrics"
     /\ \A j \in 1 .. Len(arg) : arg[j].account_section = 0
     /\ ret.balance_chain.sections <= 1
     /\ ret.balance_chain.chain_accuracy_pct = 1000
     /\ ret.metrics.opening_balance # None
     /\ ret.metrics.closing_balance # None)
    => LET opening == ret.metrics.opening_balance[1]
           closing == ret.metrics.closing_balance[1]
           credits == ret.metrics.sums.total_amount_of_credit_transactions
           debits == ret.metrics.sums.total_amount_of_debit_transactions
       IN  50 * Abs(opening + credits - debits - closing) <= Max(Abs(closing), 1000)

\* C26: Tier A table classification.  Of the tables gone through, one whose
\* header has transaction_date, balance and debit or credit is parsed for
\* transactions and is not the account-info table; the account-info table
\* is a table of page 1 that is no transaction table and mentions
\* "opening balance" or "account number".
C26_TableClassification ==
    call \in {"tables", "returned"} =>
        \A n \in 1 .. ret.n :
            arg[n].table # None =>
                LET table == arg[n].table[1]
                IN  /\ IsTransactionTable(table.mapped) =>
                           /\ ret.account_info_table # n
                           /\ table.rows >= 1 => n \in ret.parsed
                    /\ ret.account_info_table = n =>
                           /\ arg[n].page_num = 0
                           /\ ~IsTransactionTable(table.mapped)
                           /\ table.mentions

\* The credit and debit records with a balance among the first 20 of which
\* the transitions are counted.
First20(records) ==
    LET known == SelectSeq(records, LAMBDA t : t.transaction_type \in {"credit", "debit"}
                                             /\ t.balance # None)
    IN  SubSeq(known, 1, Min(Len(known), 20))

\* The number of valid balance transitions among them.
Transitions(records) ==
    LET s == First20(records)
    IN  Cardinality({j \in 2 .. Len(s) :
            Abs(Expected(s[j - 1], s[j]) - s[j].balance[1]) <= 20})

\* The list is a statement of credits and debits of one account, each with
\* its balance, listed newest first without a break: read from the last
\* record to the first every balance follows from the one before.
ConsistentNewestFirst(records) ==
    /\ Len(records) >= 2
    /\ Len(records) <= 20
    /\ \A j \in 1 .. Len(records) :
           /\ records[j].transaction_type \in {"credit", "debit"}
           /\ records[j].balance # None
           /\ records[j].account_section = 0
    /\ Transitions(Reverse(records)) = Len(records) - 1

\* C22: direction sniff.  The list is reversed if and only if the reversed
\* order has strictly more valid balance transitions than the forward order
\* among the first 20 credit/debit records with a balance; so a consistent
\* newest-first statement is put in oldest-first order and its chain
\* accuracy is 100%.
C22_DirectionSniff ==
    /\ call \in {"sniffed", "validated"} =>
           /\ ret.reversed <=> Transitions(Reverse(arg)) > Transitions(arg)
           /\ ret.final_transactions = IF ret.reversed THEN Reverse(arg) ELSE arg
           /\ ConsistentNewestFirst(arg) => ret.final_transactions = Reverse(arg)
    /\ (call = "validated" /\ ConsistentNewestFirst(arg)) =>
           ret.balance_chain.chain_accuracy_pct = 1000

\* The transactions started so far: the emitted ones, then the one in progress.
TxnsSoFar == ret.all_transactions \o ret.current_txn

\* The row about to be read is one of the footer zone: a BALANCE C/F row came
\* before it on the page and it is no balance entry itself.
InFooterZone == ret.past_closing /\ ~IsBalanceEntry(arg[ret.n + 1].desc_text)

\* A row is read that is not a lone currency code.
ReadsRow ==
    /\ call = "words"
    /\ ret.n < Len(arg)
    /\ arg[ret.n + 1].kind = "row"
    /\ arg[ret.n + 1].row_full \notin CurrencyCodes
    /\ ret'.n = ret.n + 1

\* The row read flushes the transaction in progress and starts a new one.
FlushesAndStarts ==
    /\ ret'.current_txn # None
    /\ ret'.current_txn[1].first_row = ret.n + 1
    /\ ret'.all_transactions = ret.all_transactions \o ret.current_txn

\* The row read is absorbed into the transaction in progress.
Absorbed ==
    /\ ret'.current_txn # None
    /\ ret'.current_txn[1].first_row = ret.current_txn[1].first_row
    /\ ret'.current_txn[1].txn_date = ret.current_txn[1].txn_date
    /\ arg[ret.n + 1].w_text # "" => ret'.current_txn[1].withdrawal # ""
    /\ arg[ret.n + 1].b_text # "" => ret'.current_txn[1].balance # ""
    /\ ret'.all_transactions = ret.all_transactions

\* What the rules say of the row read.
RowRules ==
    LET row == arg[ret.n + 1]
        starts == row.date_text # "" \/ IsBalanceEntry(row.desc_text)
        has_amount == row.w_text # "" \/ row.d_text # "" \/ row.b_text # ""
    IN  /\ starts => FlushesAndStarts
        /\ (~starts /\ has_amount /\ ret.current_txn # None) =>
               IF ret.current_txn[1].balance # "" /\ row.b_text # ""
               THEN /\ FlushesAndStarts
                    /\ ret'.current_txn[1].txn_date = ret.current_txn[1].txn_date
               ELSE Absorbed

\* Every transaction started is emitted or in progress, once and in row
\* order; the one in progress is of the page being read, and none is in
\* progress once the last page is done.
EmittedOnce ==
    call \in {"words", "assembled"} =>
        /\ [j \in 1 .. Len(TxnsSoFar) |-> TxnsSoFar[j].first_row] = ret.started
        /\ \A j \in 1 .. Len(ret.started) - 1 : ret.started[j] < ret.started[j + 1]
        /\ \A j \in 1 .. Len(TxnsSoFar) : TxnsSoFar[j].page_number <= ret.page_idx + 1
        /\ ret.current_txn # None => ret.current_txn[1].page_number = ret.page_idx + 1
        /\ call = "assembled" => ret.current_txn = None

\* C25 as stated: every row with a date or a balance B/F or C/F description
\* flushes and starts, every other amount row starts a transaction with the
\* inherited date exactly when the one in progress has a balance and the row
\* brings one, and is absorbed otherwise; every transaction started is
\* emitted once, in row order, by the end of its page.
C25_RowAggregation ==
    /\ [][ReadsRow => RowRules]_vars
    /\ []EmittedOnce

\* C25: Tier B row aggregation within a page, for the rows outside the footer
\* zone that follows a BALANCE C/F row of the page (the rows of that zone are
\* skipped): a row with a date or a balance B/F or C/F description flushes
\* the transaction in progress and starts a new one; an amount row without
\* date starts a transaction with the inherited date exactly when the one in
\* progress has a balance and the row brings one, and is absorbed otherwise;
\* every transaction started is emitted once, in row order, by the end of
\* its page.
C25_RowAggregationOutsideFooter ==
    /\ [][(ReadsRow /\ ~InFooterZone) => RowRules]_vars
    /\ [][(ReadsRow /\ InFooterZone) =>
              (ret'.current_txn = ret.current_txn
               /\ ret'.all_transactions = ret.all_transactions)]_vars
    /\ []EmittedOnce

\* A row was absorbed into a transaction and a sub-transaction took the date
\* of the transaction before it; all are emitted.
C25_Witness ==
    /\ call = "assembled"
    /\ \E j \in 1 .. Len(ret.all_transactions) :
           /\ ret.all_transactions[j].description = "more"
           /\ arg[ret.all_transactions[j].first_row].b_text = ""
           /\ ret.all_transactions[j].balance # ""
    /\ \E j \in 1 .. Len(ret.all_transactions) :
           /\ ret.all_transactions[j].txn_date # ret.all_transactions[j].first_row
           /\ arg[ret.all_transactions[j].txn_date].date_text # ""

\* The currency codes met before row n: above the data area of a page or
\* as the sole content of a row.
TokensBefore(n) ==
    {j \in 1 .. n - 1 :
        \/ arg[j].kind = "page" /\ arg[j].header \in CurrencyCodes
        \/ arg[j].kind = "row" /\ arg[j].row_full \in CurrencyCodes}

\* C23: multi-currency sectioning.  A currency code above the data area of
\* a page or alone on a row is a section boundary: the transaction in
\* progress is flushed, and every transaction started after the first "USD"
\* boundary of an SGD statement carries currency USD and account_section 1.
C23_CurrencySections ==
    call \in {"words", "assembled"} =>
        /\ \A j \in 1 .. Len(TxnsSoFar) :
               LET t == TxnsSoFar[j]
               IN  IF TokensBefore(t.first_row) = {}
                   THEN t.currency = "SGD" /\ t.account_section = 0
                   ELSE t.currency = "USD" /\ t.account_section = 1
        /\ (ret.n >= 1 /\ arg[ret.n].kind = "row" /\ arg[ret.n].row_full \in CurrencyCodes)
               => ret.current_txn = None

\* C30: AggregatedMetrics under concurrency.  Once the Extraction runs of all
\* documents of the group have finished, the group has its AggregatedMetrics
\* row and the row's total_statements is the number of StatementMetrics rows
\* of the group.
C30_AggregatedConsistent ==
    (call = "runs" /\ \A d \in DocIds : ret[d].pc = "done") =>
        /\ aggMetrics # None
        /\ aggMetrics[1].total_statements
               = Cardinality({d \in DocIds : stmtMetrics[d] # None})

====
